---------------------------- MODULE Spec2Model ----------------------------
(***************************************************************************)
(* A state-machine model of the mkpath pathfinding toolkit: the bit grid,  *)
(* the online (block scan) and offline (jump database) jump point search   *)
(* expanders driven by A*, compressed path database rows, the tie-break    *)
(* table, the node substrate, the node pools and the two open lists.       *)
(*                                                                         *)
(* Conventions.                                                            *)
(*  - Option<T>: None is <<>>, Some(x) is <<x>>.                           *)
(*  - EnumSet<Direction> is a set of direction discriminants (0..7).       *)
(*  - A u64 word is the set of its 1-bit positions (a subset of 0..63).    *)
(*  - An f64 cost is an integer number of 2^-23 units: every cost of the   *)
(*    program is a sum of 1.0 and SAFE_SQRT_2 = (f32 sqrt 2) terms, which  *)
(*    f64 adds exactly, so the integer order is the f64 order.             *)
(***************************************************************************)
EXTENDS Integers, Sequences, FiniteSets, TLC

None == <<>>
Some(x) == <<x>>
Unwrap(o) == o[1]

Min(S) == CHOOSE m \in S : \A n \in S : m <= n
Max(S) == CHOOSE m \in S : \A n \in S : n <= m
Abs(n) == IF n < 0 THEN 0 - n ELSE n
(* The element of a set of one element.                                    *)
Only(S) == CHOOSE v \in S : TRUE

(***************************************************************************)
(* Bounds of the model.                                                    *)
(***************************************************************************)
MapWidth == 3
MapHeight == 3

(***************************************************************************)
(* mkpath-grid: Direction                                                  *)
(***************************************************************************)
North == 0
West == 1
South == 2
East == 3
NorthWest == 4
SouthWest == 5
SouthEast == 6
NorthEast == 7

Direction == {North, West, South, East, NorthWest, SouthWest, SouthEast, NorthEast}

backwards(d) ==
    CASE d = North -> South
      [] d = West -> East
      [] d = South -> North
      [] d = East -> West
      [] d = NorthWest -> SouthEast
      [] d = SouthWest -> NorthEast
      [] d = SouthEast -> NorthWest
      [] d = NorthEast -> SouthWest

vector(d) ==
    CASE d = North -> <<0, -1>>
      [] d = West -> <<-1, 0>>
      [] d = South -> <<0, 1>>
      [] d = East -> <<1, 0>>
      [] d = NorthWest -> <<-1, -1>>
      [] d = SouthWest -> <<-1, 1>>
      [] d = SouthEast -> <<1, 1>>
      [] d = NorthEast -> <<1, -1>>

orthogonal(d) == d \in {North, East, South, West}

(***************************************************************************)
(* Costs: SAFE_SQRT_2 is f32 sqrt(2) = 11863283 * 2^-23 widened to f64.    *)
(***************************************************************************)
ONE == 2^23
SAFE_SQRT_2 == 11863283
INFINITY == 2^30
NAN == 0 - 1

(***************************************************************************)
(* u64 words as sets of bit positions.                                     *)
(***************************************************************************)
WORD_BITS == 64
Word == 0 .. (WORD_BITS - 1)
WNot(w) == Word \ w
WAnd(a, b) == a \cap b
WOr(a, b) == a \cup b
WShl(w, n) == {k + n : k \in w} \cap Word
WShr(w, n) == {k - n : k \in w} \cap Word
trailing_zeros(w) == IF w = {} THEN WORD_BITS ELSE Min(w)
leading_zeros(w) == IF w = {} THEN WORD_BITS ELSE (WORD_BITS - 1) - Max(w)

(***************************************************************************)
(* mkpath-grid: BitGrid.  bits is the set of the 1 bits of the byte array, *)
(* bit b of byte B being the number 8 * B + b.                             *)
(***************************************************************************)
BitGrid_new(width, height) ==
    LET padded_width_bytes == (width \div 8) + 1
        padded_width_bits == padded_width_bytes * 8
        nbits == padded_width_bits * (height + 2) + 8
    IN [width |-> width, height |-> height,
        padded_width_bytes |-> padded_width_bytes,
        bytes |-> 8 + (nbits \div 8) + 8,
        bits |-> {}]

BitGrid_index(map, x, y) ==
    LET padded_y == y + 1
        padded_x == x + 1
        bit == padded_x % 8
        byte == (padded_x \div 8) + padded_y * map.padded_width_bytes
    IN <<byte + 8, bit>>

padded_bounds_check(map, x, y) ==
    x >= -1 /\ y >= -1 /\ x <= map.width /\ y <= map.height

(* A variant that checks against the padded bounds.                        *)
unpadded_bounds_check_padded(map, x, y) == padded_bounds_check(map, x, y)

unpadded_bounds_check(map, x, y) ==
    x >= 0 /\ y >= 0 /\ x < map.width /\ y < map.height

get_unchecked(map, x, y) ==
    LET i == BitGrid_index(map, x, y)
    IN (8 * i[1] + i[2]) \in map.bits

set_unchecked(map, x, y, traversable) ==
    LET i == BitGrid_index(map, x, y)
        cleared == map.bits \ {8 * i[1] + i[2]}
    IN [map EXCEPT !.bits = IF traversable THEN cleared \cup {8 * i[1] + i[2]}
                                           ELSE cleared]

(* A variant that does not shift the bytes it read.                        *)
get_row_right_unshifted(map, x, y) ==
    LET i == BitGrid_index(map, x, y)
    IN {b - 8 * i[1] : b \in {c \in map.bits : c >= 8 * i[1] /\ c < 8 * i[1] + 64}}

get_row_right(map, x, y) ==
    LET i == BitGrid_index(map, x, y)
        raw_bits == {b - 8 * i[1] : b \in {c \in map.bits : c >= 8 * i[1] /\ c < 8 * i[1] + 64}}
    IN WShr(raw_bits, i[2])

get_row_left(map, x, y) ==
    LET i == BitGrid_index(map, x, y)
        lo == 8 * (i[1] - 7)
        raw_bits == {b - lo : b \in {c \in map.bits : c >= lo /\ c < lo + 64}}
    IN WShl(raw_bits, 7 - i[2])

get_neighborhood(map, x, y) ==
    {d \in Direction : get_unchecked(map, x + vector(d)[1], y + vector(d)[2])}

(* BitGrid::get and BitGrid::set: the bounds check panics before the grid *)
(* is read or written.                                                    *)
BitGrid_get(map, x, y) ==
    IF padded_bounds_check(map, x, y)
    THEN [panicked |-> FALSE, ret |-> get_unchecked(map, x, y)]
    ELSE [panicked |-> TRUE, ret |-> FALSE]

BitGrid_set(map, x, y, traversable) ==
    IF unpadded_bounds_check(map, x, y)
    THEN [panicked |-> FALSE, map |-> set_unchecked(map, x, y, traversable)]
    ELSE [panicked |-> TRUE, map |-> map]

(* The grid in which exactly the cells of trav are traversable, built as    *)
(* the callers build it: BitGrid::new, then set(x, y, true) on each cell.   *)
RECURSIVE SetAll(_, _)
SetAll(map, cells) ==
    IF cells = {} THEN map
    ELSE LET c == CHOOSE c \in cells : TRUE
         IN SetAll(set_unchecked(map, c[1], c[2], TRUE), cells \ {c})

(* set(x, y, true) on each of the cells: the bits of the cells are set,    *)
(* whatever the order of the calls.                                        *)
SetEach(grid, cells) ==
    [grid EXCEPT !.bits = @ \cup {8 * i[1] + i[2] :
                                    i \in {BitGrid_index(grid, c[1], c[2]) : c \in cells}}]

Cells(width, height) == (0 .. (width - 1)) \X (0 .. (height - 1))

GridOf(width, height, trav) == SetAll(BitGrid_new(width, height), trav)

(* JpsGrid::from: tmap is the transpose of map.                            *)
Transpose(map) ==
    SetAll(BitGrid_new(map.height, map.width),
           {c \in Cells(map.height, map.width) : get_unchecked(map, c[2], c[1])})


(***************************************************************************)
(* mkpath-jps: canonical successors                                        *)
(***************************************************************************)
reached_direction(from, to) ==
    LET dx == to[1] - from[1]
        dy == to[2] - from[2]
    IN IF Abs(dx) > Abs(dy) THEN (IF dx < 0 THEN Some(West) ELSE Some(East))
       ELSE IF Abs(dy) > Abs(dx) THEN (IF dy < 0 THEN Some(North) ELSE Some(South))
       ELSE IF dx < 0 THEN (IF dy < 0 THEN Some(NorthWest) ELSE Some(SouthWest))
       ELSE IF dx > 0 THEN (IF dy < 0 THEN Some(NorthEast) ELSE Some(SouthEast))
       ELSE None

(* A variant whose diagonals ahead are not checked against the forward     *)
(* cell.                                                                   *)
CanonicalOrthogonal_side_only(nb, fwd, sideA, backA, aheadA, sideB, backB, aheadB) ==
    (IF fwd \in nb THEN {fwd} ELSE {})
    \cup (IF nb \cap {backA, sideA} = {sideA}
          THEN {sideA} \cup (IF aheadA \in nb THEN {aheadA} ELSE {})
          ELSE {})
    \cup (IF nb \cap {backB, sideB} = {sideB}
          THEN {sideB} \cup (IF aheadB \in nb THEN {aheadB} ELSE {})
          ELSE {})

(* The arm of canonical_successors for an orthogonal direction: fwd, the   *)
(* two sides and, for each side, the diagonal behind it and ahead of it.   *)
CanonicalOrthogonal(nb, fwd, sideA, backA, aheadA, sideB, backB, aheadB) ==
    (IF fwd \in nb THEN {fwd} ELSE {})
    \cup (IF nb \cap {backA, sideA} = {sideA}
          THEN {sideA} \cup (IF {fwd, aheadA} \subseteq nb THEN {aheadA} ELSE {})
          ELSE {})
    \cup (IF nb \cap {backB, sideB} = {sideB}
          THEN {sideB} \cup (IF {fwd, aheadB} \subseteq nb THEN {aheadB} ELSE {})
          ELSE {})

(* The arm for a diagonal direction with components dy and dx.             *)
CanonicalDiagonal(nb, dy, dx, diag) ==
    (IF dy \in nb THEN {dy} ELSE {})
    \cup (IF dx \in nb THEN {dx} ELSE {})
    \cup (IF {dy, dx, diag} \subseteq nb THEN {diag} ELSE {})

CanonicalNone(nb) ==
    (nb \cap {North, West, South, East})
    \cup (IF {North, West, NorthWest} \subseteq nb THEN {NorthWest} ELSE {})
    \cup (IF {South, West, SouthWest} \subseteq nb THEN {SouthWest} ELSE {})
    \cup (IF {South, East, SouthEast} \subseteq nb THEN {SouthEast} ELSE {})
    \cup (IF {North, East, NorthEast} \subseteq nb THEN {NorthEast} ELSE {})

canonical_successors(nb, going) ==
    CASE going = Some(North) ->
            CanonicalOrthogonal(nb, North, West, SouthWest, NorthWest, East, SouthEast, NorthEast)
      [] going = Some(West) ->
            CanonicalOrthogonal(nb, West, North, NorthEast, NorthWest, South, SouthEast, SouthWest)
      [] going = Some(South) ->
            CanonicalOrthogonal(nb, South, West, NorthWest, SouthWest, East, NorthEast, SouthEast)
      [] going = Some(East) ->
            CanonicalOrthogonal(nb, East, North, NorthWest, NorthEast, South, SouthWest, SouthEast)
      [] going = Some(NorthWest) -> CanonicalDiagonal(nb, North, West, NorthWest)
      [] going = Some(SouthWest) -> CanonicalDiagonal(nb, South, West, SouthWest)
      [] going = Some(SouthEast) -> CanonicalDiagonal(nb, South, East, SouthEast)
      [] going = Some(NorthEast) -> CanonicalDiagonal(nb, North, East, NorthEast)
      [] going = None -> CanonicalNone(nb)

in_direction(D, from, to) == IF D = -1 THEN to < from ELSE from < to

(* A variant that tests the opposite direction of travel.                  *)
skipped_past_reversed(D, start, end, target) ==
    in_direction(0 - D, start, target) /\ in_direction(0 - D, target, end)

skipped_past(D, start, end, target) ==
    in_direction(D, start, target) /\ in_direction(D, target, end)

(***************************************************************************)
(* mkpath-jps: the block scans.  A scan returns <<jp_x, forced>>.          *)
(***************************************************************************)
BLOCK_STEP == 56
BLOCK_BITS == 57
LOW_MASK_BITS == 7

RightMask == 0 .. (BLOCK_BITS - 1)
LeftMask == WNot(0 .. (LOW_MASK_BITS - 1))

RECURSIVE jump_left_loop(_, _, _)
jump_left_loop(map, x, y) ==
    LET row_above == get_row_left(map, x, y - 1)
        row == get_row_left(map, x, y)
        row_below == get_row_left(map, x, y + 1)
        above_turning == WAnd(WShr(WNot(row_above), 1), row_above)
        below_turning == WAnd(WShr(WNot(row_below), 1), row_below)
        stops == WAnd(WOr(WOr(above_turning, below_turning), WNot(row)), LeftMask)
        dist == leading_zeros(stops)
    IN IF stops # {} THEN <<x - dist, (63 - dist) \in row>>
       ELSE jump_left_loop(map, x - BLOCK_STEP, y)

RECURSIVE jump_left(_, _, _, _, _)
jump_left(DY, map, x, y, all_1s) ==
    IF DY # 0 /\ x >= all_1s + BLOCK_STEP
    THEN LET row_adj == get_row_left(map, x, y + DY)
             row == get_row_left(map, x, y)
             adj_turning == WAnd(WShr(WNot(row_adj), 1), row_adj)
             stops == WAnd(WOr(adj_turning, WNot(row)), LeftMask)
             dist == leading_zeros(stops)
         IN IF stops # {} THEN <<x - dist, (63 - dist) \in row>>
            ELSE jump_left(DY, map, x - BLOCK_STEP, y, all_1s)
    ELSE jump_left_loop(map, x, y)

(* A variant of the second loop of jump_right that takes the forced flag  *)
(* from the row above.                                                     *)
RECURSIVE jump_right_loop_flag_above(_, _, _)
jump_right_loop_flag_above(map, x, y) ==
    LET row_above == get_row_right(map, x, y - 1)
        row == get_row_right(map, x, y)
        row_below == get_row_right(map, x, y + 1)
        above_turning == WAnd(WShl(WNot(row_above), 1), row_above)
        below_turning == WAnd(WShl(WNot(row_below), 1), row_below)
        stops == WAnd(WOr(WOr(above_turning, below_turning), WNot(row)), RightMask)
        dist == trailing_zeros(stops)
    IN IF stops # {} THEN <<x + dist, dist \in row_above>>
       ELSE jump_right_loop_flag_above(map, x + BLOCK_STEP, y)

RECURSIVE jump_right_loop(_, _, _)
jump_right_loop(map, x, y) ==
    LET row_above == get_row_right(map, x, y - 1)
        row == get_row_right(map, x, y)
        row_below == get_row_right(map, x, y + 1)
        above_turning == WAnd(WShl(WNot(row_above), 1), row_above)
        below_turning == WAnd(WShl(WNot(row_below), 1), row_below)
        stops == WAnd(WOr(WOr(above_turning, below_turning), WNot(row)), RightMask)
        dist == trailing_zeros(stops)
    IN IF stops # {} THEN <<x + dist, dist \in row>>
       ELSE jump_right_loop(map, x + BLOCK_STEP, y)

(* A variant whose first loop reads the adjacent row on the other side.    *)
RECURSIVE jump_right_other_side(_, _, _, _, _)
jump_right_other_side(DY, map, x, y, all_1s) ==
    IF DY # 0 /\ x <= all_1s - BLOCK_STEP
    THEN LET row_adj == get_row_right(map, x, y - DY)
             row == get_row_right(map, x, y)
             adj_turning == WAnd(WShl(WNot(row_adj), 1), row_adj)
             stops == WAnd(WOr(adj_turning, WNot(row)), RightMask)
             dist == trailing_zeros(stops)
         IN IF stops # {} THEN <<x + dist, dist \in row>>
            ELSE jump_right_other_side(DY, map, x + BLOCK_STEP, y, all_1s)
    ELSE jump_right_loop(map, x, y)

RECURSIVE jump_right(_, _, _, _, _)
jump_right(DY, map, x, y, all_1s) ==
    IF DY # 0 /\ x <= all_1s - BLOCK_STEP
    THEN LET row_adj == get_row_right(map, x, y + DY)
             row == get_row_right(map, x, y)
             adj_turning == WAnd(WShl(WNot(row_adj), 1), row_adj)
             stops == WAnd(WOr(adj_turning, WNot(row)), RightMask)
             dist == trailing_zeros(stops)
         IN IF stops # {} THEN <<x + dist, dist \in row>>
            ELSE jump_right(DY, map, x + BLOCK_STEP, y, all_1s)
    ELSE jump_right_loop(map, x, y)

(***************************************************************************)
(* mkpath-jps: JpsExpander.  An edge is [successor |-> <<x, y>>, cost |-> c];*)
(* jump_x and jump_y return the edges they push and the stop coordinate.   *)
(***************************************************************************)
WeightedEdge(state, cost) == [successor |-> state, cost |-> cost]

(* r is the pair that the scan returned.                                   *)
jump_x(map, target, DX, DY, x, y, cost, all_1s) ==
    Only({LET hit == y = target[2] /\ skipped_past(DX, x, r[1], target[1])
              successor == hit \/ r[2]
              new_x == IF hit THEN target[1] ELSE r[1]
          IN [edges |-> IF successor
                        THEN <<WeightedEdge(<<new_x, y>>, cost + (DX * (new_x - x)) * ONE)>>
                        ELSE <<>>,
              all_1s |-> r[1]]
          : r \in {IF DX = -1 THEN jump_left(DY, map.map, x, y, all_1s)
                               ELSE jump_right(DY, map.map, x, y, all_1s)}})

jump_y(map, target, DX, DY, x, y, cost, all_1s) ==
    Only({LET hit == x = target[1] /\ skipped_past(DY, y, r[1], target[2])
              successor == hit \/ r[2]
              new_y == IF hit THEN target[2] ELSE r[1]
          IN [edges |-> IF successor
                        THEN <<WeightedEdge(<<x, new_y>>, cost + (DY * (new_y - y)) * ONE)>>
                        ELSE <<>>,
              all_1s |-> r[1]]
          : r \in {IF DY = -1 THEN jump_left(DX, map.tmap, y, x, all_1s)
                               ELSE jump_right(DX, map.tmap, y, x, all_1s)}})

(* One iteration of jump_diag's loop from <<x0, y0>>, then the rest.  jx   *)
(* and jy are what the two orthogonal jumps of the iteration gave.         *)
RECURSIVE jump_diag(_, _, _, _, _, _, _, _, _)
jump_diag(map, target, DX, DY, x0, y0, cost0, x_all_1s, y_all_1s) ==
    LET x == x0 + DX
        y == y0 + DY
        cost == cost0 + SAFE_SQRT_2
    IN IF <<x, y>> = target THEN <<WeightedEdge(<<x, y>>, cost)>>
       ELSE Only({jx.edges \o jy.edges \o
                  (IF ~(x_t /\ y_t /\ xy_t) THEN <<>>
                   ELSE jump_diag(map, target, DX, DY, x, y, cost, jx.all_1s, jy.all_1s))
                  : x_t \in {get_unchecked(map.map, x + DX, y)},
                    y_t \in {get_unchecked(map.map, x, y + DY)},
                    xy_t \in {get_unchecked(map.map, x + DX, y + DY)},
                    jx \in {IF get_unchecked(map.map, x + DX, y)
                            THEN jump_x(map, target, DX, DY, x, y, cost, x_all_1s)
                            ELSE [edges |-> <<>>, all_1s |-> x_all_1s]},
                    jy \in {IF get_unchecked(map.map, x, y + DY)
                            THEN jump_y(map, target, DX, DY, x, y, cost, y_all_1s)
                            ELSE [edges |-> <<>>, all_1s |-> y_all_1s]}})

(* The jumps from <<x, y>> in the directions of successors: n, w, s and e  *)
(* are what the four orthogonal jumps gave.                                *)
JpsExpander_jumps(map, target, x, y, successors) ==
    Only({n.edges \o w.edges \o s.edges \o e.edges
          \o (IF NorthWest \in successors
              THEN jump_diag(map, target, -1, -1, x, y, 0, w.all_1s, n.all_1s) ELSE <<>>)
          \o (IF SouthWest \in successors
              THEN jump_diag(map, target, -1, 1, x, y, 0, w.all_1s, s.all_1s) ELSE <<>>)
          \o (IF SouthEast \in successors
              THEN jump_diag(map, target, 1, 1, x, y, 0, e.all_1s, s.all_1s) ELSE <<>>)
          \o (IF NorthEast \in successors
              THEN jump_diag(map, target, 1, -1, x, y, 0, e.all_1s, n.all_1s) ELSE <<>>)
          : n \in {IF North \in successors THEN jump_y(map, target, 0, -1, x, y, 0, 0)
                                           ELSE [edges |-> <<>>, all_1s |-> y]},
            w \in {IF West \in successors THEN jump_x(map, target, -1, 0, x, y, 0, 0)
                                          ELSE [edges |-> <<>>, all_1s |-> x]},
            s \in {IF South \in successors THEN jump_y(map, target, 0, 1, x, y, 0, 0)
                                           ELSE [edges |-> <<>>, all_1s |-> y]},
            e \in {IF East \in successors THEN jump_x(map, target, 1, 0, x, y, 0, 0)
                                          ELSE [edges |-> <<>>, all_1s |-> x]}})

JpsExpander_expand(map, target, state, parent) ==
    JpsExpander_jumps(map, target, state[1], state[2],
        canonical_successors(get_neighborhood(map.map, state[1], state[2]),
            IF parent = None THEN None ELSE reached_direction(Unwrap(parent), state)))

(***************************************************************************)
(* mkpath-grid: EightConnectedExpander and the octile heuristic            *)
(***************************************************************************)
GridEdge(state, cost, direction) ==
    [successor |-> state, cost |-> cost, direction |-> direction]

EightConnectedExpander_expand(map, state) ==
    LET x == state[1]
        y == state[2]
        north_traversable == get_unchecked(map, x, y - 1)
        south_traversable == get_unchecked(map, x, y + 1)
        west_traversable == get_unchecked(map, x - 1, y)
        east_traversable == get_unchecked(map, x + 1, y)
    IN (IF north_traversable THEN <<GridEdge(<<x, y - 1>>, ONE, North)>> ELSE <<>>)
       \o (IF south_traversable THEN <<GridEdge(<<x, y + 1>>, ONE, South)>> ELSE <<>>)
       \o (IF west_traversable THEN
             <<GridEdge(<<x - 1, y>>, ONE, West)>>
             \o (IF north_traversable /\ get_unchecked(map, x - 1, y - 1)
                 THEN <<GridEdge(<<x - 1, y - 1>>, SAFE_SQRT_2, NorthWest)>> ELSE <<>>)
             \o (IF south_traversable /\ get_unchecked(map, x - 1, y + 1)
                 THEN <<GridEdge(<<x - 1, y + 1>>, SAFE_SQRT_2, SouthWest)>> ELSE <<>>)
           ELSE <<>>)
       \o (IF east_traversable THEN
             <<GridEdge(<<x + 1, y>>, ONE, East)>>
             \o (IF north_traversable /\ get_unchecked(map, x + 1, y - 1)
                 THEN <<GridEdge(<<x + 1, y - 1>>, SAFE_SQRT_2, NorthEast)>> ELSE <<>>)
             \o (IF south_traversable /\ get_unchecked(map, x + 1, y + 1)
                 THEN <<GridEdge(<<x + 1, y + 1>>, SAFE_SQRT_2, SouthEast)>> ELSE <<>>)
           ELSE <<>>)

octile_distance(from, to) ==
    LET dx == Abs(from[1] - to[1])
        dy == Abs(from[2] - to[2])
        diagonals == IF dx < dy THEN dx ELSE dy
        orthos == (IF dx < dy THEN dy ELSE dx) - diagonals
    IN orthos * ONE + diagonals * SAFE_SQRT_2

(***************************************************************************)
(* mkpath-jps: JumpDatabase.  db maps a cell to its eight raw entries,     *)
(* each encoded distance << 1 | successor.                                 *)
(***************************************************************************)
JUMP_POINT_ENTRY == 3
ENTRY_STEP == 2

RECURSIVE RowMajor(_, _, _)
RowMajor(width, height, i) ==
    IF i >= width * height THEN <<>>
    ELSE << <<i % width, i \div width>> >> \o RowMajor(width, height, i + 1)

RECURSIVE Reversed(_)
Reversed(s) == IF s = <<>> THEN <<>> ELSE Reversed(Tail(s)) \o <<Head(s)>>

(* A variant that sees a jump point on one side only.                     *)
OrthoEntryOneSided(db, nb, x, y, dir, diagA, sideA, diagB, sideB) ==
    IF nb \cap {dir, diagA, sideA} = {dir, diagA} THEN JUMP_POINT_ENTRY
    ELSE IF dir \in nb
    THEN db[<<x + vector(dir)[1], y + vector(dir)[2]>>][dir] + ENTRY_STEP
    ELSE db[<<x, y>>][dir]

(* The entry for an orthogonal direction dir at <<x, y>>: the next cell   *)
(* is a jump point if, on either side, the diagonal cell is open and the   *)
(* side cell is not.                                                       *)
OrthoEntry(db, nb, x, y, dir, diagA, sideA, diagB, sideB) ==
    IF nb \cap {dir, diagA, sideA} = {dir, diagA}
       \/ nb \cap {dir, diagB, sideB} = {dir, diagB}
    THEN JUMP_POINT_ENTRY
    ELSE IF dir \in nb
    THEN db[<<x + vector(dir)[1], y + vector(dir)[2]>>][dir] + ENTRY_STEP
    ELSE db[<<x, y>>][dir]

DiagEntry(db, nb, x, y, dir, dir_x, dir_y) ==
    LET next == <<x + vector(dir)[1], y + vector(dir)[2]>>
    IN IF {dir_y, dir_x, dir} \subseteq nb
       THEN IF db[next][dir_x] % 2 # 0 \/ db[next][dir_y] % 2 # 0
            THEN JUMP_POINT_ENTRY
            ELSE db[next][dir] + ENTRY_STEP
       ELSE db[<<x, y>>][dir]

SweepWestNorth(db, map, c) ==
    LET nb == get_neighborhood(map, c[1], c[2])
        west == OrthoEntry(db, nb, c[1], c[2], West, NorthWest, North, SouthWest, South)
        north == OrthoEntry(db, nb, c[1], c[2], North, NorthWest, West, NorthEast, East)
    IN [db EXCEPT ![c] = [@ EXCEPT ![West] = west, ![North] = north]]

SweepEastSouth(db, map, c) ==
    LET nb == get_neighborhood(map, c[1], c[2])
        east == OrthoEntry(db, nb, c[1], c[2], East, NorthEast, North, SouthEast, South)
        south == OrthoEntry(db, nb, c[1], c[2], South, SouthWest, West, SouthEast, East)
    IN [db EXCEPT ![c] = [@ EXCEPT ![East] = east, ![South] = south]]

SweepNorthDiagonals(db, map, c) ==
    LET nb == get_neighborhood(map, c[1], c[2])
        nw == DiagEntry(db, nb, c[1], c[2], NorthWest, West, North)
        ne == DiagEntry(db, nb, c[1], c[2], NorthEast, East, North)
    IN [db EXCEPT ![c] = [@ EXCEPT ![NorthWest] = nw, ![NorthEast] = ne]]

SweepSouthDiagonals(db, map, c) ==
    LET nb == get_neighborhood(map, c[1], c[2])
        sw == DiagEntry(db, nb, c[1], c[2], SouthWest, West, South)
        se == DiagEntry(db, nb, c[1], c[2], SouthEast, East, South)
    IN [db EXCEPT ![c] = [@ EXCEPT ![SouthWest] = sw, ![SouthEast] = se]]

RECURSIVE Sweep(_, _, _, _)
Sweep(pass, db, map, order) ==
    IF order = <<>> THEN db
    ELSE LET c == Head(order)
             next == CASE pass = 1 -> SweepWestNorth(db, map, c)
                       [] pass = 2 -> SweepEastSouth(db, map, c)
                       [] pass = 3 -> SweepNorthDiagonals(db, map, c)
                       [] pass = 4 -> SweepSouthDiagonals(db, map, c)
         IN Sweep(pass, next, map, Tail(order))

JumpDatabase_new(map) ==
    LET forward == RowMajor(map.width, map.height, 0)
        backward == Reversed(forward)
        db0 == [c \in Cells(map.width, map.height) |-> [d \in Direction |-> 0]]
        db1 == Sweep(1, db0, map, forward)
        db2 == Sweep(2, db1, map, backward)
        db3 == Sweep(3, db2, map, forward)
    IN Sweep(4, db3, map, backward)

JumpDatabase_get(db, x, y, dir) ==
    LET raw == db[<<x, y>>][dir]
    IN <<raw \div 2, raw % 2 # 0>>

(* A variant without the target check.                                     *)
ortho_jump_without_target(db, x, y, dir, target) ==
    IF JumpDatabase_get(db, x, y, dir)[2]
    THEN Some(JumpDatabase_get(db, x, y, dir)[1]) ELSE None

ortho_jump_unchecked(db, x, y, dir, target) ==
    LET g == JumpDatabase_get(db, x, y, dir)
        dist == g[1]
        successor == g[2]
        hit == CASE dir = North ->
                      IF x = target[1] /\ y > target[2] /\ y - dist <= target[2]
                      THEN Some(y - target[2]) ELSE None
                 [] dir = West ->
                      IF y = target[2] /\ x > target[1] /\ x - dist <= target[1]
                      THEN Some(x - target[1]) ELSE None
                 [] dir = South ->
                      IF x = target[1] /\ y < target[2] /\ y + dist >= target[2]
                      THEN Some(target[2] - y) ELSE None
                 [] dir = East ->
                      IF y = target[2] /\ x < target[1] /\ x + dist >= target[1]
                      THEN Some(target[1] - x) ELSE None
    IN IF hit # None THEN hit ELSE IF successor THEN Some(dist) ELSE None

diagonal_jump_impl(db, DX, DY, x, y, target) ==
    LET dir == CASE DX = -1 /\ DY = -1 -> NorthWest
                 [] DX = 1 /\ DY = -1 -> NorthEast
                 [] DX = 1 /\ DY = 1 -> SouthEast
                 [] DX = -1 /\ DY = 1 -> SouthWest
        dir_x == IF DX = -1 THEN West ELSE East
        dir_y == IF DY = -1 THEN North ELSE South
        g == JumpDatabase_get(db, x, y, dir)
        dist == g[1]
        successor == g[2]
        reach == dist + (IF successor THEN 0 ELSE 1)
        x_target_dist == DX * (target[1] - x)
        y_target_dist == DY * (target[2] - y)
        x_passed == x_target_dist > 0 /\ x_target_dist < reach
        x_turn_y == y + DY * x_target_dist
        x_remaining == DY * (target[2] - x_turn_y)
        y_passed == y_target_dist > 0 /\ y_target_dist < reach
        y_turn_x == x + DX * y_target_dist
        y_remaining == DX * (target[1] - y_turn_x)
    IN IF x_passed /\ x_target_dist = y_target_dist
       THEN Some(<<x_target_dist, None>>)
       ELSE IF x_passed /\ x_remaining > 0
               /\ x_remaining <= JumpDatabase_get(db, target[1], x_turn_y, dir_y)[1]
       THEN Some(<<x_target_dist, Some(<<dir_y, x_remaining>>)>>)
       ELSE IF y_passed /\ y_remaining > 0
               /\ y_remaining <= JumpDatabase_get(db, y_turn_x, target[2], dir_x)[1]
       THEN Some(<<y_target_dist, Some(<<dir_x, y_remaining>>)>>)
       ELSE IF successor THEN Some(<<dist, None>>) ELSE None

(***************************************************************************)
(* mkpath-jps: JpsPlusExpander                                             *)
(***************************************************************************)
jump_ortho(db, target, x, y, dir, cost) ==
    LET d == ortho_jump_unchecked(db, x, y, dir, target)
    IN IF d = None THEN <<>>
       ELSE <<WeightedEdge(<<x + vector(dir)[1] * Unwrap(d), y + vector(dir)[2] * Unwrap(d)>>,
                           cost + Unwrap(d) * ONE)>>

RECURSIVE jump_diagonal(_, _, _, _, _, _)
jump_diagonal(db, target, x0, y0, dir, cost0) ==
    LET dx == vector(dir)[1]
        dy == vector(dir)[2]
        dir_x == IF dx = -1 THEN West ELSE East
        dir_y == IF dy = -1 THEN North ELSE South
        j == diagonal_jump_impl(db, dx, dy, x0, y0, target)
    IN IF j = None THEN <<>>
       ELSE LET dist == Unwrap(j)[1]
                x == x0 + dx * dist
                y == y0 + dy * dist
                cost == cost0 + dist * SAFE_SQRT_2
            IN IF <<x, y>> = target THEN <<WeightedEdge(<<x, y>>, cost)>>
               ELSE jump_ortho(db, target, x, y, dir_x, cost)
                    \o jump_ortho(db, target, x, y, dir_y, cost)
                    \o jump_diagonal(db, target, x, y, dir, cost)

RECURSIVE ExpandDirections(_, _, _, _, _, _)
ExpandDirections(db, target, x, y, successors, dirs) ==
    IF dirs = <<>> THEN <<>>
    ELSE (IF Head(dirs) \notin successors THEN <<>>
          ELSE IF orthogonal(Head(dirs)) THEN jump_ortho(db, target, x, y, Head(dirs), 0)
          ELSE jump_diagonal(db, target, x, y, Head(dirs), 0))
         \o ExpandDirections(db, target, x, y, successors, Tail(dirs))

JpsPlusExpander_expand(map, db, target, state, parent) ==
    LET x == state[1]
        y == state[2]
        dir == IF parent = None THEN None ELSE reached_direction(Unwrap(parent), state)
        successors == canonical_successors(get_neighborhood(map, x, y), dir)
    IN ExpandDirections(db, target, x, y, successors,
                        <<North, West, South, East,
                          NorthWest, SouthWest, SouthEast, NorthEast>>)

(***************************************************************************)
(* mkpath-core: PriorityQueue.  q is [heap, nodes]: heap is the Vec of     *)
(* node references (position i of the Vec is heap[i + 1]) and nodes maps a *)
(* node reference to its fields, among them the queue's index field.  A    *)
(* comparator is the sequence of the field names of a tuple of             *)
(* NodeMemberPointers.                                                     *)
(***************************************************************************)
(* usize::MAX, at the width of the model's integers.                       *)
USIZE_MAX == (2^30 - 1) + 2^30

FieldLe(a, b) == a # NAN /\ b # NAN /\ a <= b

RECURSIVE le_unchecked(_, _, _, _)
le_unchecked(cmp, nodes, lhs, rhs) ==
    IF Len(cmp) = 1 THEN FieldLe(nodes[lhs][cmp[1]], nodes[rhs][cmp[1]])
    ELSE LET l_leq_r == FieldLe(nodes[lhs][cmp[1]], nodes[rhs][cmp[1]])
             r_leq_l == FieldLe(nodes[rhs][cmp[1]], nodes[lhs][cmp[1]])
         IN IF l_leq_r /\ r_leq_l THEN le_unchecked(Tail(cmp), nodes, lhs, rhs)
            ELSE l_leq_r

RECURSIVE sift_up(_, _, _, _)
sift_up(cmp, q, node, index) ==
    LET parent_index == (index - 1) \div 2
        parent == q.heap[parent_index + 1]
    IN IF index > 0 /\ ~le_unchecked(cmp, q.nodes, parent, node)
       THEN sift_up(cmp,
                    [heap |-> [q.heap EXCEPT ![index + 1] = parent],
                     nodes |-> [q.nodes EXCEPT ![parent].index = index]],
                    node, parent_index)
       ELSE [heap |-> [q.heap EXCEPT ![index + 1] = node],
             nodes |-> [q.nodes EXCEPT ![node].index = index]]

(* A variant that leaves the node where it is.                             *)
sift_down_not(cmp, q, node, index) ==
    [heap |-> [q.heap EXCEPT ![index + 1] = node],
     nodes |-> [q.nodes EXCEPT ![node].index = index]]

RECURSIVE sift_down(_, _, _, _)
sift_down(cmp, q, node, index) ==
    LET child_1_index == index * 2 + 1
        child_2_index == child_1_index + 1
        child_1 == q.heap[child_1_index + 1]
        child_2 == q.heap[child_2_index + 1]
        child_index == IF child_2_index < Len(q.heap)
                          /\ ~le_unchecked(cmp, q.nodes, child_1, child_2)
                       THEN child_2_index ELSE child_1_index
        child == q.heap[child_index + 1]
    IN IF child_1_index < Len(q.heap) /\ ~le_unchecked(cmp, q.nodes, node, child)
       THEN sift_down(cmp,
                      [heap |-> [q.heap EXCEPT ![index + 1] = child],
                       nodes |-> [q.nodes EXCEPT ![child].index = index]],
                      node, child_index)
       ELSE [heap |-> [q.heap EXCEPT ![index + 1] = node],
             nodes |-> [q.nodes EXCEPT ![node].index = index]]

(* A variant that pushes the node whatever its index.                      *)
PriorityQueue_relaxed_push(cmp, q, node) ==
    sift_up(cmp, [q EXCEPT !.heap = Append(q.heap, node)], node, Len(q.heap))

PriorityQueue_relaxed(cmp, q, node) ==
    LET index == q.nodes[node].index
    IN IF index >= Len(q.heap) \/ q.heap[index + 1] # node
       THEN sift_up(cmp, [q EXCEPT !.heap = Append(q.heap, node)], node, Len(q.heap))
       ELSE sift_up(cmp, q, node, index)

(* swap_remove(0): the last element takes the place of the first.          *)
swap_remove_first(heap) ==
    IF Len(heap) = 1 THEN <<>>
    ELSE [SubSeq(heap, 1, Len(heap) - 1) EXCEPT ![1] = heap[Len(heap)]]

PriorityQueue_next(cmp, q) ==
    IF q.heap = <<>> THEN [ret |-> None, q |-> q]
    ELSE LET removed == [q EXCEPT !.heap = swap_remove_first(q.heap)]
         IN [ret |-> Some(q.heap[1]),
             q |-> IF removed.heap = <<>> THEN removed
                   ELSE sift_down(cmp, removed, removed.heap[1], 0)]

(***************************************************************************)
(* The node layout of a search: the pool's state field, the parent, the    *)
(* queue's index and A*'s g, h and f, with the defaults of add_field.      *)
(***************************************************************************)
DefaultNode(state) ==
    [state |-> state, parent |-> None, index |-> USIZE_MAX,
     g |-> INFINITY, h |-> NAN, f |-> INFINITY]

(* NodePool::generate seen from the search: the pool as the map from the  *)
(* states generated since the last reset to the fields of their nodes.     *)
generate(nodes, state) ==
    IF state \in DOMAIN nodes THEN nodes ELSE nodes @@ (state :> DefaultNode(state))

RECURSIVE GenerateAll(_, _)
GenerateAll(nodes, edges) ==
    IF edges = <<>> THEN nodes
    ELSE GenerateAll(generate(nodes, Head(edges).successor), Tail(edges))

(***************************************************************************)
(* AStarSearcher::search                                                   *)
(***************************************************************************)
ordering == <<"f", "h">>

AStar_begin(nodes0, heuristic_target, start) ==
    LET nodes == generate(nodes0, start)
        h == octile_distance(start, heuristic_target)
        set == [nodes EXCEPT ![start].g = 0, ![start].h = h, ![start].f = h]
    IN PriorityQueue_relaxed(ordering, [heap |-> <<>>, nodes |-> set], start)

(* The body of `for edge in &edges`.                                       *)
RECURSIVE AStar_relax(_, _, _, _, _)
AStar_relax(q, heuristic_target, node, node_g, edges) ==
    IF edges = <<>> THEN q
    ELSE LET successor == Head(edges).successor
             new_g == node_g + Head(edges).cost
             old == q.nodes[successor]
             h == IF old.h = NAN THEN octile_distance(successor, heuristic_target)
                                 ELSE old.h
             updated == [old EXCEPT !.h = h, !.g = new_g, !.f = new_g + h,
                                    !.parent = Some(node)]
         IN IF new_g < old.g
            THEN AStar_relax(PriorityQueue_relaxed(ordering,
                                 [q EXCEPT !.nodes[successor] = updated], successor),
                             heuristic_target, node, node_g, Tail(edges))
            ELSE AStar_relax(q, heuristic_target, node, node_g, Tail(edges))

(* The path returned on success: from the goal back along the parents,     *)
(* reversed.                                                               *)
RECURSIVE PathTo(_, _)
PathTo(nodes, node) ==
    IF nodes[node].parent = None THEN <<node>>
    ELSE PathTo(nodes, Unwrap(nodes[node].parent)) \o <<node>>

(***************************************************************************)
(* The cheapest 8-connected path cost from a cell, over the edges of       *)
(* EightConnectedExpander, as the least fixed point of relaxation.         *)
(***************************************************************************)
RECURSIVE SeqToSet(_)
SeqToSet(s) == IF s = <<>> THEN {} ELSE {Head(s)} \cup SeqToSet(Tail(s))

EightConnectedEdges(map) ==
    UNION {{<<c, e.successor, e.cost>> : e \in SeqToSet(EightConnectedExpander_expand(map, c))}
           : c \in {t \in Cells(map.width, map.height) : get_unchecked(map, t[1], t[2])}}

RECURSIVE RelaxToFixpoint(_, _)
RelaxToFixpoint(edges, dist) ==
    LET next == [c \in DOMAIN dist |->
                    Min({dist[c]} \cup {dist[e[1]] + e[3] :
                                        e \in {d \in edges : d[2] = c /\ dist[d[1]] < INFINITY}})]
    IN IF next = dist THEN dist ELSE RelaxToFixpoint(edges, next)

EightConnectedCosts(map, from) ==
    RelaxToFixpoint(EightConnectedEdges(map),
                    [c \in Cells(map.width, map.height) |-> IF c = from THEN 0 ELSE INFINITY])

(***************************************************************************)
(* State of the search component: a problem (map, start, target), the      *)
(* expander in use, the node pool, the open list, and what search returned *)
(* under each expander.                                                    *)
(***************************************************************************)
VARIABLES map, jump_db, start, target, optimal, expander, phase, pool, open_list, results

SearchVars == <<map, jump_db, start, target, optimal, expander, phase, pool, open_list, results>>

Expanders == <<"jps", "jps_plus">>

NotReturned == [returned |-> FALSE, path |-> None, cost |-> INFINITY]

SearchIdle ==
    /\ map = <<>>
    /\ jump_db = <<>>
    /\ start = <<>>
    /\ target = <<>>
    /\ optimal = 0
    /\ expander = 0
    /\ phase = "idle"
    /\ pool = <<>>
    /\ open_list = <<>>
    /\ results = <<>>

SearchInit ==
    \E trav \in SUBSET Cells(MapWidth, MapHeight) :
        LET grid == GridOf(MapWidth, MapHeight, trav)
        IN /\ map = [map |-> grid, tmap |-> Transpose(grid)]
           /\ jump_db = JumpDatabase_new(grid)
           /\ \E s \in trav :
                LET costs == EightConnectedCosts(grid, s)
                IN /\ start = s
                   /\ \E t \in trav : target = t /\ optimal = costs[t]
           /\ expander = 1
           /\ phase = "ready"
           /\ pool = <<>>
           /\ open_list = <<>>
           /\ results = [e \in {"jps", "jps_plus"} |-> NotReturned]

Expand(node) ==
    IF Expanders[expander] = "jps"
    THEN JpsExpander_expand(map, target, node, pool[node].parent)
    ELSE JpsPlusExpander_expand(map.map, jump_db, target, node, pool[node].parent)

(* pool.generate(start) and the statements of search before its loop.      *)
Search_begin ==
    /\ phase = "ready"
    /\ LET q == AStar_begin(pool, target, start)
       IN pool' = q.nodes /\ open_list' = q.heap
    /\ phase' = "searching"
    /\ UNCHANGED <<map, jump_db, start, target, optimal, expander, results>>

(* One iteration of the loop whose node is not the goal.                   *)
Search_expand ==
    /\ phase = "searching"
    /\ \E n \in {PriorityQueue_next(ordering, [heap |-> open_list, nodes |-> pool])} :
          /\ n.ret # None
          /\ Unwrap(n.ret) # target
          /\ \E edges \in {Expand(Unwrap(n.ret))} :
             \E q \in {AStar_relax([n.q EXCEPT !.nodes = GenerateAll(n.q.nodes, edges)],
                                   target, Unwrap(n.ret), n.q.nodes[Unwrap(n.ret)].g,
                                   edges)} :
                pool' = q.nodes /\ open_list' = q.heap
    /\ UNCHANGED <<map, jump_db, start, target, optimal, expander, phase, results>>

(* The iteration that pops the goal: search returns Some(path).            *)
Search_found ==
    /\ phase = "searching"
    /\ LET n == PriorityQueue_next(ordering, [heap |-> open_list, nodes |-> pool])
       IN /\ n.ret # None
          /\ Unwrap(n.ret) = target
          /\ pool' = n.q.nodes
          /\ open_list' = n.q.heap
          /\ results' = [results EXCEPT ![Expanders[expander]] =
                           [returned |-> TRUE,
                            path |-> Some(PathTo(pool, target)),
                            cost |-> pool[target].g]]
    /\ phase' = "returned"
    /\ UNCHANGED <<map, jump_db, start, target, optimal, expander>>

(* The open list is empty: search returns None.                            *)
Search_failed ==
    /\ phase = "searching"
    /\ PriorityQueue_next(ordering, [heap |-> open_list, nodes |-> pool]).ret = None
    /\ results' = [results EXCEPT ![Expanders[expander]] =
                     [returned |-> TRUE, path |-> None, cost |-> INFINITY]]
    /\ phase' = "returned"
    /\ UNCHANGED <<map, jump_db, start, target, optimal, expander, pool, open_list>>

(* The same problem is then given to the next expander, on a reset pool    *)
(* and a new queue.                                                        *)
NextExpander ==
    /\ phase = "returned"
    /\ expander < Len(Expanders)
    /\ expander' = expander + 1
    /\ pool' = <<>>
    /\ open_list' = <<>>
    /\ phase' = "ready"
    /\ UNCHANGED <<map, jump_db, start, target, optimal, results>>


(***************************************************************************)
(* The jump component: an orthogonal jump from a cell taken both ways, by  *)
(* the block scan JpsExpander::expand starts (jump_x or jump_y with DX or  *)
(* DY of 0 and all_1s of 0) and by the jump database.                      *)
(***************************************************************************)
VARIABLES scan

ScanOf(c, d) == [taken |-> FALSE, cell |-> c, dir |-> d,
                 online |-> <<0, FALSE>>, offline |-> <<0, FALSE>>]

NoScan == ScanOf(<<0, 0>>, North)

(* The stop coordinate of the scan and its forced flag, the stop given as  *)
(* its distance from the cell along the direction.                         *)
OnlineJump(grid, c, d) ==
    LET r == CASE d = West -> jump_left(0, grid.map, c[1], c[2], 0)
               [] d = East -> jump_right(0, grid.map, c[1], c[2], 0)
               [] d = North -> jump_left(0, grid.tmap, c[2], c[1], 0)
               [] d = South -> jump_right(0, grid.tmap, c[2], c[1], 0)
        from == IF d \in {West, East} THEN c[1] ELSE c[2]
    IN <<Abs(r[1] - from), r[2]>>

JumpInit ==
    /\ \E trav \in SUBSET Cells(MapWidth, MapHeight) :
        LET grid == GridOf(MapWidth, MapHeight, trav)
        IN /\ map = [map |-> grid, tmap |-> Transpose(grid)]
           /\ jump_db = JumpDatabase_new(grid)
    /\ \E c \in Cells(MapWidth, MapHeight) :
        \E d \in {North, West, South, East} : scan = ScanOf(c, d)
    /\ start = <<>>
    /\ target = <<>>
    /\ optimal = 0
    /\ expander = 0
    /\ phase = "idle"
    /\ pool = <<>>
    /\ open_list = <<>>
    /\ results = <<>>

Jump ==
    /\ ~scan.taken
    /\ scan' = [scan EXCEPT
                  !.taken = TRUE,
                  !.online = OnlineJump(map, scan.cell, scan.dir),
                  !.offline = JumpDatabase_get(jump_db, scan.cell[1], scan.cell[2], scan.dir)]
    /\ UNCHANGED SearchVars

(***************************************************************************)
(* mkpath-cpd: CpdRow.  A CpdEntry is a u32, kept as the set of its 1-bit  *)
(* positions; ids and moves are converted to and from bits as the shifts   *)
(* and masks of the code do.                                               *)
(***************************************************************************)
ENTRY_BITS == 32
START_BITS == 26

RECURSIVE ToBitsFrom(_, _)
ToBitsFrom(n, k) ==
    IF n = 0 THEN {}
    ELSE (IF n % 2 = 1 THEN {k} ELSE {}) \cup ToBitsFrom(n \div 2, k + 1)

ToBits(n) == ToBitsFrom(n, 0)

RECURSIVE FromBits(_)
FromBits(w) ==
    IF w = {} THEN 0
    ELSE LET k == CHOOSE k \in w : TRUE IN 2^k + FromBits(w \ {k})

(* CpdEntry(current_id | current_moves.trailing_zeros() << 26)             *)
CpdEntry(current_id, current_moves) ==
    LET shifted == {k + START_BITS : k \in ToBits(trailing_zeros(current_moves))}
                   \cap (0 .. (ENTRY_BITS - 1))
    IN ToBits(current_id) \cup shifted

CpdEntry_start(entry) == FromBits(entry \cap (0 .. (START_BITS - 1)))

CpdEntry_edge(entry) == FromBits({k - START_BITS : k \in entry \ (0 .. (START_BITS - 1))})

(* A variant that leaves the runs in sorted order.                         *)
reorder_sorted(items, into, k) == [items |-> <<>>, into |-> items]

(* items is what is left of the iterator over the sorted runs.             *)
RECURSIVE reorder_eytzinger(_, _, _)
reorder_eytzinger(items, into, k) ==
    IF k < Len(into)
    THEN LET left == reorder_eytzinger(items, into, 2 * k + 1)
             placed == [left.into EXCEPT ![k + 1] = Head(left.items)]
         IN reorder_eytzinger(Tail(left.items), placed, 2 * k + 2)
    ELSE [items |-> items, into |-> into]

(* The loop of compress_runs over the enumerated masks followed by (0, 0). *)
RECURSIVE CompressLoop(_, _, _, _)
CompressLoop(items, runs, current_id, current_moves) ==
    IF items = <<>> THEN runs
    ELSE LET id == Head(items)[1]
             moves == Head(items)[2]
         IN IF WAnd(current_moves, moves) = {}
            THEN CompressLoop(Tail(items),
                              Append(runs, CpdEntry(current_id, current_moves)),
                              id, moves)
            ELSE CompressLoop(Tail(items), runs, current_id,
                              WAnd(current_moves, moves))

compress_runs(first_move_bits) ==
    LET runs == CompressLoop(first_move_bits \o << <<0, {}>> >>, <<>>, 0, WNot({}))
    IN reorder_eytzinger(runs, runs, 0).into

compress(first_move_bits) ==
    compress_runs([i \in 1 .. Len(first_move_bits) |-> <<i - 1, first_move_bits[i]>>])

(* The local `sorted` of compress_runs: the runs before they are reordered. *)
sorted_runs(first_move_bits) ==
    CompressLoop([i \in 1 .. Len(first_move_bits) |-> <<i - 1, first_move_bits[i]>>]
                    \o << <<0, {}>> >>,
                 <<>>, 0, WNot({}))

(* A variant that descends to the left child when the id is the start.     *)
RECURSIVE LookupLoop_inclusive(_, _, _, _)
LookupLoop_inclusive(runs, id, i, result) ==
    IF i < Len(runs)
    THEN IF id <= CpdEntry_start(runs[i + 1])
         THEN LookupLoop_inclusive(runs, id, 2 * i + 1, result)
         ELSE LookupLoop_inclusive(runs, id, 2 * i + 2, CpdEntry_edge(runs[i + 1]))
    ELSE result

RECURSIVE LookupLoop(_, _, _, _)
LookupLoop(runs, id, i, result) ==
    IF i < Len(runs)
    THEN IF id < CpdEntry_start(runs[i + 1])
         THEN LookupLoop(runs, id, 2 * i + 1, result)
         ELSE LookupLoop(runs, id, 2 * i + 2, CpdEntry_edge(runs[i + 1]))
    ELSE result

lookup(runs, id) == LookupLoop(runs, id, 0, 0)

(* A variant that writes the most significant byte first.                  *)
u32_to_be_bytes(w) ==
    [i \in 1 .. 4 |-> FromBits({k - 8 * (4 - i) : k \in {b \in w : b \div 8 = 4 - i}})]

(* u32::to_le_bytes of a word kept as the set of its 1-bit positions.      *)
u32_to_le_bytes(w) ==
    [i \in 1 .. 4 |-> FromBits({k - 8 * (i - 1) : k \in {b \in w : b \div 8 = i - 1}})]

RECURSIVE write_runs(_)
write_runs(runs) ==
    IF runs = <<>> THEN <<>>
    ELSE u32_to_le_bytes(Head(runs)) \o write_runs(Tail(runs))

(* CpdRow::save: the bytes written, the length as a u32 and then the runs. *)
CpdRow_save(runs) ==
    u32_to_le_bytes(ToBits(Len(runs)) \cap (0 .. (ENTRY_BITS - 1))) \o write_runs(runs)

(***************************************************************************)
(* mkpath-grid-gb: PartialCellCpd::query, TopsExpander and ToppingPlus.    *)
(* A PartialCellCpd is [mapper, partial_cpd]: mapper gives each cell its   *)
(* id and partial_cpd gives each cell its row, or None.  The nodes of the  *)
(* HashPool are a function from the state to the node's cost and parent.   *)
(***************************************************************************)
(* usize -> Direction: the discriminants 0 .. 7.                           *)
Direction_try_from(v) == IF v \in Direction THEN Some(v) ELSE None

query(cpd, pos, goal) ==
    IF cpd.partial_cpd[pos] = None THEN None
    ELSE Direction_try_from(lookup(Unwrap(cpd.partial_cpd[pos]), cpd.mapper[goal]))

dir_x_of(dir) == IF vector(dir)[1] = -1 THEN West ELSE East

dir_y_of(dir) == IF vector(dir)[2] = -1 THEN North ELSE South

(* The cell a diagonal jump (dist, turn) from <<x, y>> ends on.            *)
DiagonalEnd(x, y, dir, j) ==
    IF j[2] = None
    THEN <<x + vector(dir)[1] * j[1], y + vector(dir)[2] * j[1]>>
    ELSE IF Unwrap(j[2])[1] = dir_x_of(dir)
    THEN <<x + vector(dir)[1] * j[1] + vector(dir)[1] * Unwrap(j[2])[2],
           y + vector(dir)[2] * j[1]>>
    ELSE <<x + vector(dir)[1] * j[1],
           y + vector(dir)[2] * j[1] + vector(dir)[2] * Unwrap(j[2])[2]>>

DiagonalCost(j) ==
    j[1] * SAFE_SQRT_2 + (IF j[2] = None THEN 0 ELSE Unwrap(j[2])[2] * ONE)

(* TopsExpander::jump_diagonal: one iteration of the loop at <<x0, y0>>,   *)
(* followed by the rest of the loop.                                       *)
RECURSIVE TopsExpander_jump_diagonal(_, _, _, _, _, _, _)
TopsExpander_diagonal_step(db, cpd, goal, dir, at, cost, first_move) ==
    IF at = goal THEN <<WeightedEdge(at, cost)>>
    ELSE IF first_move = None
    THEN jump_ortho(db, goal, at[1], at[2], dir_x_of(dir), cost)
         \o jump_ortho(db, goal, at[1], at[2], dir_y_of(dir), cost)
         \o TopsExpander_jump_diagonal(db, cpd, goal, at[1], at[2], dir, cost)
    ELSE IF Unwrap(first_move) = dir_x_of(dir)
    THEN jump_ortho(db, goal, at[1], at[2], dir_x_of(dir), cost)
    ELSE IF Unwrap(first_move) = dir_y_of(dir)
    THEN jump_ortho(db, goal, at[1], at[2], dir_y_of(dir), cost)
    ELSE IF Unwrap(first_move) # dir THEN <<>>
    ELSE TopsExpander_jump_diagonal(db, cpd, goal, at[1], at[2], dir, cost)

TopsExpander_jump_diagonal(db, cpd, goal, x0, y0, dir, cost0) ==
    Only({IF j = None THEN <<>>
          ELSE TopsExpander_diagonal_step(
                   db, cpd, goal, dir, DiagonalEnd(x0, y0, dir, Unwrap(j)),
                   cost0 + DiagonalCost(Unwrap(j)),
                   query(cpd, DiagonalEnd(x0, y0, dir, Unwrap(j)), goal))
          : j \in {diagonal_jump_impl(db, vector(dir)[1], vector(dir)[2], x0, y0, goal)}})

RECURSIVE TopsExpander_directions(_, _, _, _, _, _, _)
TopsExpander_directions(db, cpd, goal, x, y, successors, dirs) ==
    IF dirs = <<>> THEN <<>>
    ELSE (IF Head(dirs) \notin successors THEN <<>>
          ELSE IF orthogonal(Head(dirs)) THEN jump_ortho(db, goal, x, y, Head(dirs), 0)
          ELSE TopsExpander_jump_diagonal(db, cpd, goal, x, y, Head(dirs), 0))
         \o TopsExpander_directions(db, cpd, goal, x, y, successors, Tail(dirs))

TopsExpander_successors(nb, dir, first_move) ==
    IF first_move = None THEN canonical_successors(nb, dir)
    ELSE canonical_successors(nb, dir) \cap {Unwrap(first_move)}

TopsExpander_expand(grid, db, cpd, goal, state, parent) ==
    TopsExpander_directions(
        db, cpd, goal, state[1], state[2],
        TopsExpander_successors(
            get_neighborhood(grid, state[1], state[2]),
            IF parent = None THEN None ELSE reached_direction(Unwrap(parent), state),
            query(cpd, state, goal)),
        <<North, West, South, East, NorthWest, SouthWest, SouthEast, NorthEast>>)

(* The match of get_path on the CPD's move: the next state, or None when   *)
(* the jump's unwrap panics.                                               *)
ToppingPlus_next_state(db, goal, state, dir) ==
    IF orthogonal(dir)
    THEN Only({IF d = None THEN None
               ELSE Some(<<state[1] + vector(dir)[1] * Unwrap(d),
                           state[2] + vector(dir)[2] * Unwrap(d)>>)
               : d \in {ortho_jump_unchecked(db, state[1], state[2], dir, goal)}})
    ELSE Only({IF j = None THEN None
               ELSE Some(DiagonalEnd(state[1], state[2], dir, Unwrap(j)))
               : j \in {diagonal_jump_impl(db, vector(dir)[1], vector(dir)[2],
                                           state[1], state[2], goal)}})

(* The walk from a start successor: the loop `while current_node.get(cost) *)
(* .is_infinite()`.  walked is the set of the <<prev_state, state>> pairs   *)
(* the loop was at; at a pair it was at before, it never ends.             *)
RECURSIVE ToppingPlus_walk(_, _, _, _, _, _, _, _, _)
ToppingPlus_walk_step(grid, db, cpd, goal, nodes, current, prev_state, node_stack, walked, dir) ==
    IF dir = None
    THEN [status |-> "panicked", nodes |-> nodes, current |-> current,
          node_stack |-> node_stack]
    ELSE IF Unwrap(dir) \notin
              canonical_successors(get_neighborhood(grid, current[1], current[2]),
                                   reached_direction(prev_state, current))
    THEN [status |-> "rejected", nodes |-> nodes, current |-> current,
          node_stack |-> node_stack]
    ELSE Only({IF next_state = None
               THEN [status |-> "panicked", nodes |-> nodes, current |-> current,
                     node_stack |-> node_stack]
               ELSE ToppingPlus_walk(grid, db, cpd, goal,
                                     [nodes EXCEPT ![current].parent = next_state],
                                     Unwrap(next_state), current,
                                     Append(node_stack, current),
                                     walked \cup {<<prev_state, current>>})
               : next_state \in {ToppingPlus_next_state(db, goal, current, Unwrap(dir))}})

ToppingPlus_walk(grid, db, cpd, goal, nodes, current, prev_state, node_stack, walked) ==
    IF nodes[current].cost # INFINITY
    THEN [status |-> "arrived", nodes |-> nodes, current |-> current,
          node_stack |-> node_stack]
    ELSE IF <<prev_state, current>> \in walked
    THEN [status |-> "endless", nodes |-> nodes, current |-> current,
          node_stack |-> node_stack]
    ELSE ToppingPlus_walk_step(grid, db, cpd, goal, nodes, current, prev_state,
                               node_stack, walked, query(cpd, current, goal))

(* The loop `while let Some(prev_node) = node_stack.pop()`: the nodes and  *)
(* the current node it ends on.                                            *)
RECURSIVE ToppingPlus_unwind(_, _, _)
ToppingPlus_unwind(nodes, current, node_stack) ==
    IF node_stack = <<>> THEN [nodes |-> nodes, current |-> current]
    ELSE ToppingPlus_unwind(
             [nodes EXCEPT ![node_stack[Len(node_stack)]].cost =
                 nodes[current].cost
                 + octile_distance(node_stack[Len(node_stack)], current)],
             node_stack[Len(node_stack)],
             SubSeq(node_stack, 1, Len(node_stack) - 1))

(* A variant that records the start successor whatever its cost.           *)
ToppingPlus_improve_last(nodes, from, current, edge_cost) ==
    [nodes EXCEPT ![from].cost = nodes[current].cost + edge_cost,
                  ![from].parent = Some(current)]

(* The end of an iteration of 'start_successor.                            *)
ToppingPlus_improve(nodes, from, current, edge_cost) ==
    IF nodes[current].cost + edge_cost < nodes[from].cost
    THEN [nodes EXCEPT ![from].cost = nodes[current].cost + edge_cost,
                       ![from].parent = Some(current)]
    ELSE nodes

(* The loop 'start_successor over the edges of the start node: how it      *)
(* ended, the nodes, and the number of start successors it rejected.       *)
RECURSIVE ToppingPlus_start_successors(_, _, _, _, _, _, _, _)
ToppingPlus_after_walk(grid, db, cpd, from, goal, starts, rejected, w) ==
    IF w.status \in {"panicked", "endless"}
    THEN [status |-> w.status, nodes |-> w.nodes, rejected |-> rejected]
    ELSE IF w.status = "rejected"
    THEN ToppingPlus_start_successors(grid, db, cpd, from, goal, w.nodes,
                                      Tail(starts), rejected + 1)
    ELSE Only({ToppingPlus_start_successors(
                   grid, db, cpd, from, goal,
                   ToppingPlus_improve(u.nodes, from, u.current, Head(starts).cost),
                   Tail(starts), rejected)
               : u \in {ToppingPlus_unwind(w.nodes, w.current, w.node_stack)}})

ToppingPlus_start_successors(grid, db, cpd, from, goal, nodes, starts, rejected) ==
    IF starts = <<>> THEN [status |-> "done", nodes |-> nodes, rejected |-> rejected]
    ELSE ToppingPlus_after_walk(
             grid, db, cpd, from, goal, starts, rejected,
             ToppingPlus_walk(grid, db, cpd, goal, nodes, Head(starts).successor,
                              from, <<>>, {}))

(* The loop `while let Some(next_node) = node.get_parent()`: the states    *)
(* after node, or None when the parents lead back to a node of the path.   *)
RECURSIVE ToppingPlus_follow(_, _, _)
ToppingPlus_follow(nodes, node, followed) ==
    IF nodes[node].parent = None THEN Some(<<>>)
    ELSE IF Unwrap(nodes[node].parent) \in followed THEN None
    ELSE Only({IF rest = None THEN None
               ELSE Some(<<Unwrap(nodes[node].parent)>> \o Unwrap(rest))
               : rest \in {ToppingPlus_follow(nodes, Unwrap(nodes[node].parent),
                                              followed \cup {Unwrap(nodes[node].parent)})}})

ToppingPlus_finish(from, starts, r) ==
    IF r.status = "panicked"
    THEN [outcome |-> "panicked", path |-> <<>>, cost |-> INFINITY,
          starts |-> Len(starts), rejected |-> r.rejected]
    ELSE IF r.status = "endless" \/ ToppingPlus_follow(r.nodes, from, {from}) = None
    THEN [outcome |-> "endless", path |-> <<>>, cost |-> INFINITY,
          starts |-> Len(starts), rejected |-> r.rejected]
    ELSE [outcome |-> "returned",
          path |-> <<from>> \o Unwrap(ToppingPlus_follow(r.nodes, from, {from})),
          cost |-> r.nodes[from].cost,
          starts |-> Len(starts), rejected |-> r.rejected]

(* The nodes after node_pool.reset(), generate(start), generate(target)    *)
(* and target_node.set(cost, 0.0): a node that was not generated yet is    *)
(* the default node, of infinite cost and without parent.                  *)
ToppingPlus_nodes(grid, goal) ==
    [c \in Cells(grid.width, grid.height) |->
        [cost |-> IF c = goal THEN 0 ELSE INFINITY, parent |-> None]]

ToppingPlus_with_starts(grid, db, cpd, from, goal, starts) ==
    IF \E k \in DOMAIN starts : starts[k].successor = goal
    THEN [outcome |-> "returned", path |-> <<from, goal>>,
          cost |-> starts[Min({k \in DOMAIN starts : starts[k].successor = goal})].cost,
          starts |-> Len(starts), rejected |-> 0]
    ELSE ToppingPlus_finish(
             from, starts,
             ToppingPlus_start_successors(grid, db, cpd, from, goal,
                                          ToppingPlus_nodes(grid, goal), starts, 0))

ToppingPlus_get_path(grid, db, cpd, from, goal) ==
    ToppingPlus_with_starts(grid, db, cpd, from, goal,
                            TopsExpander_expand(grid, db, cpd, goal, from, None))

(***************************************************************************)
(* The row component: a sequence of first-move masks is compressed to a    *)
(* row, and the row is looked up and saved.                                *)
(***************************************************************************)
MaxIds == 4
MaxMoves == 2

VARIABLES first_moves, row, looked_up, saved

RowVars == <<first_moves, row, looked_up, saved>>

MoveMasks == SUBSET ((0 .. (MaxMoves - 1)) \cup {WORD_BITS - 1})

RowIdle ==
    /\ first_moves = <<>>
    /\ row = None
    /\ looked_up = None
    /\ saved = None

RowInit ==
    /\ \E n \in 0 .. MaxIds : first_moves \in [1 .. n -> MoveMasks]
    /\ row = None
    /\ looked_up = None
    /\ saved = None

Compress ==
    /\ row = None
    /\ row' = Some(compress(first_moves))
    /\ UNCHANGED <<first_moves, looked_up, saved>>

Lookup(id) ==
    /\ row # None
    /\ looked_up = None
    /\ looked_up' = Some([id |-> id, move |-> lookup(Unwrap(row), id)])
    /\ UNCHANGED <<first_moves, row, saved>>

Save ==
    /\ row # None
    /\ saved = None
    /\ saved' = Some(CpdRow_save(Unwrap(row)))
    /\ UNCHANGED <<first_moves, row, looked_up>>

(***************************************************************************)
(* mkpath-grid-gb: the tie-break table                                     *)
(***************************************************************************)
TABLE_SIZE == 256

(* EnumSet::from_u8: bit i of the byte is the direction of discriminant i. *)
from_u8(byte) == ToBits(byte)

(* Cases 1 to 4: the first moves that make a jump point reached in         *)
(* direction jp irrelevant.                                                *)
TurnedAway(jp) ==
    CASE jp = North -> {SouthWest, South, SouthEast}
      [] jp = West -> {NorthEast, East, SouthEast}
      [] jp = South -> {NorthWest, North, NorthEast}
      [] jp = East -> {NorthWest, West, SouthWest}
      [] jp = NorthWest -> {SouthWest, South, SouthEast, East, NorthEast}
      [] jp = SouthWest -> {SouthEast, East, NorthEast, North, NorthWest}
      [] jp = SouthEast -> {NorthEast, North, NorthWest, West, SouthWest}
      [] jp = NorthEast -> {NorthWest, West, SouthWest, South, SouthEast}

(* Case 5: the orthogonal-to-orthogonal turns.                             *)
OrthogonalTurn(jp, fm, nb) ==
    \/ jp = North /\ West \in fm /\ SouthWest \in nb
    \/ jp = North /\ East \in fm /\ SouthEast \in nb
    \/ jp = West /\ South \in fm /\ SouthEast \in nb
    \/ jp = West /\ North \in fm /\ NorthEast \in nb
    \/ jp = South /\ West \in fm /\ NorthWest \in nb
    \/ jp = South /\ East \in fm /\ NorthEast \in nb
    \/ jp = East /\ South \in fm /\ SouthWest \in nb
    \/ jp = East /\ North \in fm /\ NorthWest \in nb

(* A variant that knows no irrelevant jump point.                          *)
is_relevant_always(jp, fm, nb) == FALSE

is_irrelevant_jp(jp, fm, nb) ==
    \/ canonical_successors(nb, Some(jp)) \cap fm = {}
    \/ fm \cap TurnedAway(jp) # {}
    \/ OrthogonalTurn(jp, fm, nb)

(* The loop `for jp in jps`, in the order of the discriminants.            *)
RECURSIVE TiebreakEntry(_, _, _, _, _)
TiebreakEntry(entry, fm_dirs, nb, jps, jp) ==
    IF jp >= Cardinality(Direction) THEN entry
    ELSE TiebreakEntry(IF jp \in jps /\ ~is_irrelevant_jp(jp, fm_dirs, nb)
                       THEN entry \cap canonical_successors(nb, Some(jp))
                       ELSE entry,
                       fm_dirs, nb, jps, jp + 1)

(* The table, and whether the assertion of the loop over fm failed.        *)
compute_tiebreak_table(nb, jps) ==
    LET valid_moves == canonical_successors(nb, None)
        table == [fm \in 0 .. (TABLE_SIZE - 1) |->
                    IF fm = 0 THEN Direction
                    ELSE IF ~(from_u8(fm) \subseteq valid_moves) THEN from_u8(fm)
                    ELSE TiebreakEntry(from_u8(fm), from_u8(fm), nb, jps, 0)]
    IN [table |-> table,
        panicked |-> \E fm \in 1 .. (TABLE_SIZE - 1) :
                        from_u8(fm) \subseteq valid_moves /\ table[fm] = {}]

(***************************************************************************)
(* The tie-break component: a neighborhood and a set of jump point         *)
(* directions, and the table computed for them.                            *)
(***************************************************************************)
MaxJumpPoints == 2

VARIABLES neighborhood, jump_points, tiebreak

TiebreakVars == <<neighborhood, jump_points, tiebreak>>

TiebreakIdle ==
    /\ neighborhood = {}
    /\ jump_points = {}
    /\ tiebreak = None

TiebreakInit ==
    /\ neighborhood \in SUBSET Direction
    /\ jump_points \in {j \in SUBSET Direction : Cardinality(j) <= MaxJumpPoints}
    /\ tiebreak = None

ComputeTiebreakTable ==
    /\ tiebreak = None
    /\ tiebreak' = Some(compute_tiebreak_table(neighborhood, jump_points))
    /\ UNCHANGED <<neighborhood, jump_points>>

(***************************************************************************)
(* mkpath-core: nodes.  Node memory and the builder's default are byte     *)
(* sequences (byte at offset o is element o + 1); a value of a field type  *)
(* is its size_of bytes.  A Layout is [size, align].                       *)
(***************************************************************************)
HEADER_SIZE == 16
HEADER_ALIGN == 8
POINTER_SIZE == 8

padding_needed_for(size, align) == (align - (size % align)) % align

(* A variant that grows the layout by the alignment of the field, not by  *)
(* its size.                                                               *)
Layout_extend_by_align(layout, next) ==
    LET offset == layout.size + padding_needed_for(layout.size, next.align)
    IN [layout |-> [size |-> offset + next.align,
                    align |-> Max({layout.align, next.align})],
        offset |-> offset]

Layout_extend(layout, next) ==
    LET offset == layout.size + padding_needed_for(layout.size, next.align)
    IN [layout |-> [size |-> offset + next.size,
                    align |-> Max({layout.align, next.align})],
        offset |-> offset]

pad_to_align(layout) ==
    [layout EXCEPT !.size = layout.size + padding_needed_for(layout.size, layout.align)]

resize(bytes, size) ==
    [i \in 1 .. size |-> IF i <= Len(bytes) THEN bytes[i] ELSE 0]

write_unaligned(bytes, offset, value) ==
    [i \in 1 .. Len(bytes) |->
        IF i > offset /\ i <= offset + Len(value) THEN value[i - offset] ELSE bytes[i]]

read(bytes, offset, size) == [i \in 1 .. size |-> bytes[offset + i]]

(* The static LAYOUT_ID is an AtomicU64; the model keeps the counter in    *)
(* LAYOUT_ID_BITS bits, and LAYOUT_ID_MAX stands for i64::MAX, the largest *)
(* value of the lower half of the range.                                   *)
LAYOUT_ID_BITS == 3
LAYOUT_ID_MAX == 2^(LAYOUT_ID_BITS - 1) - 1

(* A variant that loads the counter and leaves it as it is.                *)
fetch_add_load(counter, val) == [ret |-> counter, counter |-> counter]

(* AtomicU64::fetch_add: the previous value, and the wrapped sum.          *)
fetch_add(counter, val) ==
    [ret |-> counter, counter |-> (counter + val) % 2^LAYOUT_ID_BITS]

(* The header: the layout id, little-endian, then the null parent.         *)
NodeHeader(layout_id) ==
    [i \in 1 .. HEADER_SIZE |-> IF i = 1 THEN layout_id ELSE 0]

NodeBuilder_new(layout_id) ==
    [layout_id |-> layout_id,
     layout |-> [size |-> HEADER_SIZE, align |-> HEADER_ALIGN],
     default |-> NodeHeader(layout_id)]

(* add_field: the builder it leaves and the member pointer it returns.     *)
add_field(builder, T, default) ==
    LET e == Layout_extend(builder.layout, T)
    IN [builder |-> [builder EXCEPT
                        !.layout = e.layout,
                        !.default = write_unaligned(resize(builder.default, e.layout.size),
                                                    e.offset, default)],
        member |-> [layout_id |-> builder.layout_id, offset |-> e.offset, size |-> T.size]]

build(builder) ==
    LET layout == pad_to_align(builder.layout)
    IN [layout_id |-> builder.layout_id,
        default |-> resize(builder.default, layout.size),
        layout |-> layout]

(* The memory of a new node: a copy of the default.                        *)
new_node(alloc) == read(alloc.default, 0, alloc.layout.size)

NodeRef_layout_id(node) == node[1]

check_layout(node, layout_id) == NodeRef_layout_id(node) = layout_id

NodeRef_get(node, member) == read(node, member.offset, member.size)

NodeRef_set(node, member, value) == write_unaligned(node, member.offset, value)

NodeRef_get_parent(node) == read(node, HEADER_SIZE - POINTER_SIZE, POINTER_SIZE)

(***************************************************************************)
(* The node component: a builder gets fields and is built, nodes are       *)
(* allocated, and their fields are set and read.  written is the value     *)
(* last given to each field of each node, or None.                         *)
(***************************************************************************)
MaxFields == 2
MaxNodes == 2
MaxFill == 1

VARIABLES builder, members, allocator, arena, written, observed

NodeVars == <<builder, members, allocator, arena, written, observed>>

(* u8-like, u32-like, u64-like and (i32, i32)-like field types.            *)
FieldTypes ==
    {[size |-> 1, align |-> 1], [size |-> 4, align |-> 4],
     [size |-> 8, align |-> 8], [size |-> 8, align |-> 4]}

ValueOf(T, fill) == [i \in 1 .. T.size |-> fill]

NodeIdle ==
    /\ builder = None
    /\ members = <<>>
    /\ allocator = None
    /\ arena = <<>>
    /\ written = <<>>
    /\ observed = None

NodeInit ==
    /\ builder = Some(NodeBuilder_new(1))
    /\ members = <<>>
    /\ allocator = None
    /\ arena = <<>>
    /\ written = <<>>
    /\ observed = None

AddField(T, fill) ==
    /\ builder # None
    /\ Len(members) < MaxFields
    /\ LET r == add_field(Unwrap(builder), T, ValueOf(T, fill))
       IN /\ builder' = Some(r.builder)
          /\ members' = Append(members, [pointer |-> r.member,
                                         default |-> ValueOf(T, fill)])
    /\ UNCHANGED <<allocator, arena, written, observed>>

Build ==
    /\ builder # None
    /\ allocator' = Some(build(Unwrap(builder)))
    /\ builder' = None
    /\ UNCHANGED <<members, arena, written, observed>>

NewNode ==
    /\ allocator # None
    /\ Len(arena) < MaxNodes
    /\ arena' = Append(arena, new_node(Unwrap(allocator)))
    /\ written' = Append(written, [f \in 1 .. Len(members) |-> None])
    /\ UNCHANGED <<builder, members, allocator, observed>>

Set(n, f, fill) ==
    /\ check_layout(arena[n], members[f].pointer.layout_id)
    /\ LET value == [i \in 1 .. members[f].pointer.size |-> fill]
       IN /\ arena' = [arena EXCEPT ![n] = NodeRef_set(@, members[f].pointer, value)]
          /\ written' = [written EXCEPT ![n][f] = Some(value)]
    /\ observed' = None
    /\ UNCHANGED <<builder, members, allocator>>

Get(n, f) ==
    /\ check_layout(arena[n], members[f].pointer.layout_id)
    /\ observed' = Some([node |-> n, field |-> f,
                         value |-> NodeRef_get(arena[n], members[f].pointer)])
    /\ UNCHANGED <<builder, members, allocator, arena, written>>

(***************************************************************************)
(* Values as bytes: i32 and usize, little-endian.                          *)
(***************************************************************************)
BYTE == 256
I32_SIZE == 4
USIZE_SIZE == 8

to_le_bytes(v, size) ==
    [i \in 1 .. size |-> IF i <= I32_SIZE THEN (v \div BYTE^(i - 1)) % BYTE
                         ELSE IF v < 0 THEN BYTE - 1 ELSE 0]

from_le_bytes_i32(bytes) ==
    bytes[1] + bytes[2] * BYTE + bytes[3] * BYTE^2
    + (IF bytes[4] >= BYTE \div 2 THEN bytes[4] - BYTE ELSE bytes[4]) * BYTE^3

(* usize::MAX is all ones; other indices are below 2^31.                   *)
usize_bytes(v) ==
    IF v = USIZE_MAX THEN [i \in 1 .. USIZE_SIZE |-> BYTE - 1] ELSE to_le_bytes(v, USIZE_SIZE)

StateBytes(state) == to_le_bytes(state[1], I32_SIZE) \o to_le_bytes(state[2], I32_SIZE)

BytesState(bytes) ==
    <<from_le_bytes_i32(SubSeq(bytes, 1, I32_SIZE)),
      from_le_bytes_i32(SubSeq(bytes, I32_SIZE + 1, 2 * I32_SIZE))>>

(***************************************************************************)
(* mkpath-grid: Grid                                                       *)
(***************************************************************************)
(* f is the closure, as the function from its two arguments to its value. *)
Grid_new(width, height, f) ==
    [width |-> width, height |-> height,
     cells |-> [k \in 1 .. (height * width) |-> f[<<(k - 1) \div width, (k - 1) % width>>]]]

Grid_index(grid, x, y) == grid.width * y + x

Grid_bounds_check(grid, x, y) ==
    x >= 0 /\ y >= 0 /\ x < grid.width /\ y < grid.height

(***************************************************************************)
(* The arena of a NodeAllocator: bump is the number of nodes allocated     *)
(* since the last reset and memory[p] the bytes at node address p, which   *)
(* a reset leaves as they are.  NULL is the null pointer.                  *)
(***************************************************************************)
NULL == 0

Arena_new == [bump |-> 0, memory |-> <<>>]

Arena_reset(a) == [a EXCEPT !.bump = 0]

(* NodeAllocator::new_node on the arena: the arena after it, and the       *)
(* address of the node.                                                    *)
Arena_new_node(alloc, a) ==
    LET ptr == a.bump + 1
    IN [arena |-> [bump |-> ptr,
                   memory |-> IF ptr > Len(a.memory)
                              THEN Append(a.memory, new_node(alloc))
                              ELSE [a.memory EXCEPT ![ptr] = new_node(alloc)]],
        ptr |-> ptr]

(***************************************************************************)
(* The node pools.  Each is built over a layout that has, besides the      *)
(* pool's state field, one field of the client (an f64-like g).            *)
(***************************************************************************)
I32_PAIR == [size |-> 8, align |-> 4]
F64 == [size |-> 8, align |-> 8]
USIZE == [size |-> 8, align |-> 8]

CLIENT_DEFAULT == 127
CLIENT_DIRTY == 1

ClientDefault == ValueOf(F64, CLIENT_DEFAULT)

(* builder.add_field((-1, -1)) then the client's field, as the callers of  *)
(* HashPool::new and GridPool::new do.                                     *)
StateThenClient ==
    LET s == add_field(NodeBuilder_new(1), I32_PAIR, StateBytes(<<-1, -1>>))
        c == add_field(s.builder, F64, ClientDefault)
    IN [allocator |-> build(c.builder), state_field |-> s.member, client_field |-> c.member]

HashPool_new(alloc, state_field) ==
    [state_field |-> state_field, allocator |-> alloc, arena |-> Arena_new,
     map |-> <<>>]

HashPool_reset(p) == [p EXCEPT !.map = <<>>, !.arena = Arena_reset(p.arena)]

HashPool_get(p, state) ==
    IF state \in DOMAIN p.map THEN Some(p.map[state]) ELSE None

HashPool_generate(p, state) ==
    IF state \in DOMAIN p.map THEN [pool |-> p, node |-> p.map[state]]
    ELSE LET n == Arena_new_node(p.allocator, p.arena)
             memory == [n.arena.memory EXCEPT
                           ![n.ptr] = NodeRef_set(@, p.state_field, StateBytes(state))]
         IN [pool |-> [p EXCEPT !.arena = [n.arena EXCEPT !.memory = memory],
                                !.map = (state :> n.ptr) @@ p.map],
             node |-> n.ptr]

NullSlot == [c \in Int \X Int |-> <<0, NULL>>]

GridPool_new(alloc, state_field, width, height) ==
    [search_number |-> 1,
     state_map |-> Grid_new(width, height, NullSlot),
     state_field |-> state_field, allocator |-> alloc, arena |-> Arena_new]

GridPool_get_unchecked(p, state) ==
    LET slot == p.state_map.cells[Grid_index(p.state_map, state[1], state[2]) + 1]
    IN IF slot[1] = p.search_number THEN Some(slot[2]) ELSE None

(* A variant that does not record the node in the slot.                    *)
GridPool_generate_unrecorded(p, state) ==
    LET n == Arena_new_node(p.allocator, p.arena)
        memory == [n.arena.memory EXCEPT
                      ![n.ptr] = NodeRef_set(@, p.state_field, StateBytes(state))]
    IN [pool |-> [p EXCEPT !.arena = [n.arena EXCEPT !.memory = memory]],
        node |-> n.ptr]

GridPool_generate_unchecked(p, state) ==
    LET k == Grid_index(p.state_map, state[1], state[2]) + 1
        slot == p.state_map.cells[k]
    IN IF slot[1] = p.search_number THEN [pool |-> p, node |-> slot[2]]
       ELSE LET n == Arena_new_node(p.allocator, p.arena)
                memory == [n.arena.memory EXCEPT
                              ![n.ptr] = NodeRef_set(@, p.state_field, StateBytes(state))]
            IN [pool |-> [p EXCEPT !.arena = [n.arena EXCEPT !.memory = memory],
                                   !.state_map.cells[k] = <<p.search_number, n.ptr>>],
                node |-> n.ptr]

GridPool_get(p, state) == GridPool_get_unchecked(p, state)

GridPool_generate(p, state) == GridPool_generate_unchecked(p, state)

(* The u64 search number, at the width the model gives it.                 *)
SEARCH_NUMBER_MAX == 3

checked_add(a, b) == IF a + b > SEARCH_NUMBER_MAX THEN None ELSE Some(a + b)

(* A variant that restarts the search number without clearing the slots.   *)
GridPool_reset_without_fill(p) ==
    [p EXCEPT !.search_number = IF checked_add(p.search_number, 1) = None THEN 1
                                ELSE Unwrap(checked_add(p.search_number, 1)),
              !.arena = Arena_reset(p.arena)]

GridPool_reset(p) ==
    LET next == checked_add(p.search_number, 1)
    IN IF next = None
       THEN [p EXCEPT !.state_map.cells = [k \in DOMAIN p.state_map.cells |-> <<0, NULL>>],
                      !.search_number = 1,
                      !.arena = Arena_reset(p.arena)]
       ELSE [p EXCEPT !.search_number = Unwrap(next),
                      !.arena = Arena_reset(p.arena)]

(* ComplexStatePool::new adds its usize state field to the client's        *)
(* builder and builds it.                                                  *)
ComplexStatePool_new(client_builder) ==
    LET s == add_field(client_builder, USIZE, usize_bytes(USIZE_MAX))
    IN [allocator |-> build(s.builder), state_field |-> s.member, arena |-> Arena_new,
        data |-> [map |-> <<>>, states |-> <<>>]]

ComplexStatePool_reset(p) ==
    [p EXCEPT !.data = [map |-> <<>>, states |-> <<>>], !.arena = Arena_reset(p.arena)]

ComplexStatePool_get(p, state) ==
    IF state \in DOMAIN p.data.map THEN Some(p.data.map[state]) ELSE None

ComplexStatePool_generate(p, state) ==
    IF state \in DOMAIN p.data.map THEN [pool |-> p, node |-> p.data.map[state]]
    ELSE LET index == Len(p.data.states)
             n == Arena_new_node(p.allocator, p.arena)
             memory == [n.arena.memory EXCEPT
                           ![n.ptr] = NodeRef_set(@, p.state_field, usize_bytes(index))]
         IN [pool |-> [p EXCEPT !.arena = [n.arena EXCEPT !.memory = memory],
                                !.data = [map |-> (state :> n.ptr) @@ p.data.map,
                                          states |-> Append(p.data.states, state)]],
             node |-> n.ptr]

(***************************************************************************)
(* The pool component: one pool of one of the three kinds, on which        *)
(* generate and reset are called and whose nodes the client writes to.     *)
(* issued is the set of <<state, node>> pairs generate has returned since  *)
(* the last reset, and last_call what the last call was.                   *)
(***************************************************************************)
PoolWidth == 3
PoolHeight == 1

VARIABLES node_pool, client_field, issued, last_call

PoolVars == <<node_pool, client_field, issued, last_call>>

PoolKinds == {"HashPool", "GridPool", "ComplexStatePool"}

PoolStates == Cells(PoolWidth, PoolHeight)

PoolIdle ==
    /\ node_pool = <<>>
    /\ client_field = <<>>
    /\ issued = {}
    /\ last_call = <<>>

NoCall == [op |-> "new", state |-> <<0, 0>>, node |-> NULL, first |-> FALSE, fresh |-> FALSE]

PoolInit ==
    /\ \E kind \in PoolKinds :
         LET c == add_field(NodeBuilder_new(1), F64, ClientDefault)
         IN \/ /\ kind = "HashPool"
               /\ node_pool = [kind |-> kind,
                               pool |-> HashPool_new(StateThenClient.allocator,
                                                     StateThenClient.state_field)]
               /\ client_field = StateThenClient.client_field
            \/ /\ kind = "GridPool"
               /\ node_pool = [kind |-> kind,
                               pool |-> GridPool_new(StateThenClient.allocator,
                                                     StateThenClient.state_field,
                                                     PoolWidth, PoolHeight)]
               /\ client_field = StateThenClient.client_field
            \/ /\ kind = "ComplexStatePool"
               /\ node_pool = [kind |-> kind, pool |-> ComplexStatePool_new(c.builder)]
               /\ client_field = c.member
    /\ issued = {}
    /\ last_call = NoCall

PoolGenerateOf(p, state) ==
    CASE p.kind = "HashPool" -> HashPool_generate(p.pool, state)
      [] p.kind = "GridPool" -> GridPool_generate(p.pool, state)
      [] p.kind = "ComplexStatePool" -> ComplexStatePool_generate(p.pool, state)

PoolResetOf(p) ==
    CASE p.kind = "HashPool" -> HashPool_reset(p.pool)
      [] p.kind = "GridPool" -> GridPool_reset(p.pool)
      [] p.kind = "ComplexStatePool" -> ComplexStatePool_reset(p.pool)

PoolGetOf(p, state) ==
    CASE p.kind = "HashPool" -> HashPool_get(p.pool, state)
      [] p.kind = "GridPool" -> GridPool_get(p.pool, state)
      [] p.kind = "ComplexStatePool" -> ComplexStatePool_get(p.pool, state)

PoolGenerate(state) ==
    /\ LET r == PoolGenerateOf(node_pool, state)
       IN /\ node_pool' = [node_pool EXCEPT !.pool = r.pool]
          /\ issued' = issued \cup {<<state, r.node>>}
          /\ last_call' = [op |-> "generate", state |-> state, node |-> r.node,
                           first |-> ~(\E e \in issued : e[1] = state),
                           fresh |-> ~(\E e \in issued : e[2] = r.node)]
    /\ UNCHANGED client_field

PoolReset ==
    /\ node_pool' = [node_pool EXCEPT !.pool = PoolResetOf(node_pool)]
    /\ issued' = {}
    /\ last_call' = [NoCall EXCEPT !.op = "reset"]
    /\ UNCHANGED client_field

(* The client sets its field on a node it was given since the last reset.  *)
PoolTouch(node) ==
    /\ \E e \in issued : e[2] = node
    /\ node_pool' = [node_pool EXCEPT !.pool.arena.memory[node] =
                        NodeRef_set(@, client_field, ValueOf(F64, CLIENT_DIRTY))]
    /\ last_call' = [NoCall EXCEPT !.op = "set", !.node = node]
    /\ UNCHANGED <<client_field, issued>>

(***************************************************************************)
(* The priority queue component: nodes with fields f and h, a queue over   *)
(* one of two comparators, and a client that lowers a node's key and then  *)
(* calls relaxed, calls relaxed again on a node whose key it left as it    *)
(* is, or calls next.  queued is the set of nodes the client has relaxed   *)
(* and not yet been given back, queue_returned the set of the nodes next   *)
(* has returned.                                                           *)
(***************************************************************************)
MaxQueueNodes == 3
MaxF == 2
MaxH == 1

VARIABLES queue_cmp, queue_nodes, queue_heap, queued, popped, queue_returned

QueueVars == <<queue_cmp, queue_nodes, queue_heap, queued, popped, queue_returned>>

QueueNodes == 1 .. MaxQueueNodes

NoPop == [called |-> FALSE, ret |-> None, before |-> {}]

QueueIdle ==
    /\ queue_cmp = <<>>
    /\ queue_nodes = <<>>
    /\ queue_heap = <<>>
    /\ queued = {}
    /\ popped = NoPop
    /\ queue_returned = {}

QueueInit ==
    /\ queue_cmp \in {<<"f">>, <<"f", "h">>}
    /\ queue_nodes = [n \in QueueNodes |-> [index |-> USIZE_MAX, f |-> MaxF, h |-> MaxH]]
    /\ queue_heap = <<>>
    /\ queued = {}
    /\ popped = NoPop
    /\ queue_returned = {}

(* Whether key a is strictly before key b under the queue's comparator.    *)
KeyDecreases(a, b) ==
    LET two == <<a, b>>
    IN le_unchecked(queue_cmp, two, 1, 2) /\ ~le_unchecked(queue_cmp, two, 2, 1)

(* The client lowers the key of a node and calls relaxed.                  *)
QueueRelaxed(n, f, h) ==
    /\ KeyDecreases([queue_nodes[n] EXCEPT !.f = f, !.h = h], queue_nodes[n])
    /\ LET set == [queue_nodes EXCEPT ![n].f = f, ![n].h = h]
           q == PriorityQueue_relaxed(queue_cmp, [heap |-> queue_heap, nodes |-> set], n)
       IN queue_heap' = q.heap /\ queue_nodes' = q.nodes
    /\ queued' = queued \cup {n}
    /\ popped' = NoPop
    /\ UNCHANGED <<queue_cmp, queue_returned>>

(* The client calls relaxed on a node whose key it did not change.         *)
QueueRelaxedAgain(n) ==
    /\ \E q \in {PriorityQueue_relaxed(queue_cmp,
                                       [heap |-> queue_heap, nodes |-> queue_nodes], n)} :
          queue_heap' = q.heap /\ queue_nodes' = q.nodes
    /\ queued' = queued \cup {n}
    /\ popped' = NoPop
    /\ UNCHANGED <<queue_cmp, queue_returned>>

QueueNext ==
    /\ LET r == PriorityQueue_next(queue_cmp, [heap |-> queue_heap, nodes |-> queue_nodes])
       IN /\ queue_heap' = r.q.heap
          /\ queue_nodes' = r.q.nodes
          /\ popped' = [called |-> TRUE, ret |-> r.ret, before |-> queued]
          /\ queued' = IF r.ret = None THEN queued ELSE queued \ {Unwrap(r.ret)}
          /\ queue_returned' = IF r.ret = None THEN queue_returned
                                ELSE queue_returned \cup {Unwrap(r.ret)}
    /\ UNCHANGED queue_cmp

(***************************************************************************)
(* mkpath-grid: BucketQueue.  q is [bucket_number, bucket_width, queue,    *)
(* nodes]: queue is the VecDeque of buckets, front first, each bucket a    *)
(* Vec of node references, and nodes maps a node reference to its g and    *)
(* bucket_pos fields.  g and bucket_width are integers in one unit.        *)
(***************************************************************************)
(* u32::MAX, at the width of the model's integers.                         *)
U32_MAX == (2^30 - 1) + 2^30

Last(s) == s[Len(s)]
Front(s) == SubSeq(s, 1, Len(s) - 1)

(* A variant that takes from the last bucket that holds a node.            *)
BucketQueue_next_from_back(q) ==
    LET holding == {i \in DOMAIN q.queue : q.queue[i] # <<>>}
    IN IF holding = {} THEN [ret |-> None, q |-> q]
       ELSE [ret |-> Some(Last(q.queue[Max(holding)])),
             q |-> [q EXCEPT !.queue[Max(holding)] = Front(@)]]

RECURSIVE BucketQueue_next(_)
BucketQueue_next(q) ==
    IF q.queue = <<>> THEN [ret |-> None, q |-> q]
    ELSE IF Head(q.queue) # <<>>
    THEN [ret |-> Some(Last(Head(q.queue))),
          q |-> [q EXCEPT !.queue[1] = Front(Head(q.queue))]]
    ELSE LET rest == Tail(q.queue)
         IN BucketQueue_next([q EXCEPT
                !.queue = IF rest # <<>> /\ Last(rest) # <<>>
                          THEN Append(rest, Head(q.queue)) ELSE rest,
                !.bucket_number = q.bucket_number + 1])

(* A variant that leaves the bucket_pos of the swapped-in node as it was.  *)
BucketQueue_relaxed_stale_slot(q, node, debug) ==
    LET bucket == q.nodes[node].bucket_pos[1]
        index == q.nodes[node].bucket_pos[2]
        new_bucket == q.nodes[node].g \div q.bucket_width
        old_at == bucket - q.bucket_number
        old_bucket == q.queue[old_at + 1]
        remove_panics ==
            \/ old_at < 0
            \/ old_at >= Len(q.queue)
            \/ debug /\ (index >= Len(old_bucket) \/ old_bucket[index + 1] # node)
            \/ old_bucket # <<>> /\ Last(old_bucket) # node /\ index >= Len(old_bucket) - 1
        removed ==
            IF bucket = U32_MAX \/ old_bucket = <<>> THEN q
            ELSE IF Last(old_bucket) = node
            THEN [q EXCEPT !.queue[old_at + 1] = Front(old_bucket)]
            ELSE [q EXCEPT !.queue[old_at + 1] =
                                [Front(old_bucket) EXCEPT ![index + 1] = Last(old_bucket)]]
        new_index == new_bucket - q.bucket_number
        resized == IF new_index >= Len(removed.queue)
                   THEN removed.queue
                        \o [i \in 1 .. (new_index + 1 - Len(removed.queue)) |-> <<>>]
                   ELSE removed.queue
    IN IF bucket = new_bucket THEN [q |-> q, panicked |-> FALSE]
       ELSE IF bucket # U32_MAX /\ remove_panics THEN [q |-> q, panicked |-> TRUE]
       ELSE IF new_index < 0 THEN [q |-> removed, panicked |-> TRUE]
       ELSE [q |-> [removed EXCEPT
                       !.queue = [resized EXCEPT ![new_index + 1] = Append(@, node)],
                       !.nodes[node].bucket_pos = <<new_bucket, Len(resized[new_index + 1])>>],
             panicked |-> FALSE]

(* relaxed, as [q, panicked]: panicked when a u32 subtraction underflows,  *)
(* an index is out of bounds, or, with debug assertions, the debug_assert  *)
(* fails.                                                                  *)
BucketQueue_relaxed(q, node, debug) ==
    LET bucket == q.nodes[node].bucket_pos[1]
        index == q.nodes[node].bucket_pos[2]
        new_bucket == q.nodes[node].g \div q.bucket_width
        old_at == bucket - q.bucket_number
        old_bucket == q.queue[old_at + 1]
        remove_panics ==
            \/ old_at < 0
            \/ old_at >= Len(q.queue)
            \/ debug /\ (index >= Len(old_bucket) \/ old_bucket[index + 1] # node)
            \/ old_bucket # <<>> /\ Last(old_bucket) # node /\ index >= Len(old_bucket) - 1
        removed ==
            IF bucket = U32_MAX \/ old_bucket = <<>> THEN q
            ELSE IF Last(old_bucket) = node
            THEN [q EXCEPT !.queue[old_at + 1] = Front(old_bucket)]
            ELSE [q EXCEPT !.queue[old_at + 1] =
                                [Front(old_bucket) EXCEPT ![index + 1] = Last(old_bucket)],
                           !.nodes[Last(old_bucket)].bucket_pos = <<bucket, index>>]
        new_index == new_bucket - q.bucket_number
        resized == IF new_index >= Len(removed.queue)
                   THEN removed.queue
                        \o [i \in 1 .. (new_index + 1 - Len(removed.queue)) |-> <<>>]
                   ELSE removed.queue
    IN IF bucket = new_bucket THEN [q |-> q, panicked |-> FALSE]
       ELSE IF bucket # U32_MAX /\ remove_panics THEN [q |-> q, panicked |-> TRUE]
       ELSE IF new_index < 0 THEN [q |-> removed, panicked |-> TRUE]
       ELSE [q |-> [removed EXCEPT
                       !.queue = [resized EXCEPT ![new_index + 1] = Append(@, node)],
                       !.nodes[node].bucket_pos = <<new_bucket, Len(resized[new_index + 1])>>],
             panicked |-> FALSE]

(***************************************************************************)
(* The bucket queue component: a Dijkstra-style client.  It lowers the g   *)
(* of a node, never below the g of the node that next returned last, and   *)
(* calls relaxed; or it calls next.  returned is the sequence of           *)
(* <<node, g>> that next has returned.                                     *)
(***************************************************************************)
MaxBucketNodes == 3
MaxG == 4
MaxBucketWidth == 2

VARIABLES bucket_queue, debug_assertions, returned, bucket_panicked

BucketVars == <<bucket_queue, debug_assertions, returned, bucket_panicked>>

BucketNodes == 1 .. MaxBucketNodes

BucketIdle ==
    /\ bucket_queue = <<>>
    /\ debug_assertions = FALSE
    /\ returned = <<>>
    /\ bucket_panicked = FALSE

BucketInit ==
    /\ \E width \in 1 .. MaxBucketWidth :
          bucket_queue = [bucket_number |-> 0, bucket_width |-> width, queue |-> <<>>,
                          nodes |-> [n \in BucketNodes |->
                                        [g |-> INFINITY, bucket_pos |-> <<U32_MAX, U32_MAX>>]]]
    /\ debug_assertions \in BOOLEAN
    /\ returned = <<>>
    /\ bucket_panicked = FALSE

BucketRelaxed(n, g) ==
    /\ ~bucket_panicked
    /\ g < bucket_queue.nodes[n].g
    /\ returned # <<>> => g >= Last(returned)[2]
    /\ LET r == BucketQueue_relaxed([bucket_queue EXCEPT !.nodes[n].g = g], n,
                                    debug_assertions)
       IN bucket_queue' = r.q /\ bucket_panicked' = r.panicked
    /\ UNCHANGED <<debug_assertions, returned>>

BucketNext ==
    /\ ~bucket_panicked
    /\ LET r == BucketQueue_next(bucket_queue)
       IN /\ bucket_queue' = r.q
          /\ returned' = IF r.ret = None THEN returned
                         ELSE Append(returned,
                                     <<Unwrap(r.ret), bucket_queue.nodes[Unwrap(r.ret)].g>>)
    /\ UNCHANGED <<debug_assertions, bucket_panicked>>

(***************************************************************************)
(* Properties of the search component                                      *)
(***************************************************************************)

(* C1: whenever the target can be reached from the start over 8-connected  *)
(* moves, A* with JpsExpander returns a path, and the cost of that path is *)
(* the cheapest 8-connected cost.                                          *)
C1_JpsCostIsOptimal ==
    (results["jps"].returned /\ optimal < INFINITY)
        => (results["jps"].path # None /\ results["jps"].cost = optimal)

(* A solvable problem whose returned path goes through a jump point and    *)
(* takes a diagonal step.                                                  *)
C1_Witness ==
    /\ results["jps"].returned
    /\ optimal < INFINITY
    /\ results["jps"].path # None
    /\ Len(Unwrap(results["jps"].path)) >= 3
    /\ results["jps"].cost % ONE # 0

C4_ScanEqualsDatabase ==
    scan.taken => scan.online = scan.offline

(* C4, amended: from a traversable cell the forced flags agree; a forced   *)
(* scan stops on the jump point, at the database's distance, and a scan    *)
(* that is not forced stops on the blocking cell, one past the database's  *)
(* distance.                                                               *)
C4_ScanMatchesDatabase ==
    (scan.taken /\ get_unchecked(map.map, scan.cell[1], scan.cell[2]))
        => /\ scan.online[2] = scan.offline[2]
           /\ scan.online[1] = scan.offline[1] + (IF scan.online[2] THEN 0 ELSE 1)

(* A scan from a traversable cell that runs over a cell before it is       *)
(* forced to stop.                                                         *)
C4_Witness ==
    /\ scan.taken
    /\ get_unchecked(map.map, scan.cell[1], scan.cell[2])
    /\ scan.online[2]
    /\ scan.online[1] >= 2

(* C3: looking up an id whose mask is not empty in the row compressed     *)
(* from the masks returns a move whose bit is set in that mask.            *)
C3_LookupReturnsAllowedMove ==
    (looked_up # None /\ first_moves[Unwrap(looked_up).id + 1] # {})
        => Unwrap(looked_up).move \in first_moves[Unwrap(looked_up).id + 1]

(* A lookup in a row of at least three runs, of an id that is not in the   *)
(* first run and whose move is not move 0.                                 *)
C3_Witness ==
    /\ looked_up # None
    /\ Len(Unwrap(row)) >= 3
    /\ Unwrap(looked_up).id >= 2
    /\ first_moves[Unwrap(looked_up).id + 1] # {}
    /\ Unwrap(looked_up).move # 0

Expected(n, f) ==
    IF written[n][f] # None THEN Unwrap(written[n][f]) ELSE members[f].default

(* C6: a get returns the value last set to that field of that node, or the *)
(* field's default if it was never set; and since a set changes no other   *)
(* field of the node, nor its header, nor any other node, this is so for   *)
(* every field of every node at once.  Every field lies within the bytes   *)
(* of the node.                                                            *)
C6_FieldsAreIndependent ==
    /\ observed # None
         => Unwrap(observed).value = Expected(Unwrap(observed).node, Unwrap(observed).field)
    /\ \A n \in 1 .. Len(arena) :
         /\ \A f \in 1 .. Len(members) :
              /\ members[f].pointer.offset + members[f].pointer.size <= Len(arena[n])
              /\ NodeRef_get(arena[n], members[f].pointer) = Expected(n, f)
         /\ read(arena[n], 0, HEADER_SIZE) = NodeHeader(Unwrap(allocator).layout_id)

(* A get of a field never set, on a node whose other field was set to      *)
(* another value, while another node holds a third combination.            *)
C6_Witness ==
    /\ observed # None
    /\ Len(arena) >= 2
    /\ Len(members) >= 2
    /\ written[Unwrap(observed).node][Unwrap(observed).field] = None
    /\ \E g \in 1 .. Len(members) :
          /\ written[Unwrap(observed).node][g] # None
          /\ Unwrap(written[Unwrap(observed).node][g]) # members[g].default
    /\ \E m \in 1 .. Len(arena) :
          written[m][Unwrap(observed).field] # None

(* C7: between two resets, for each kind of pool, generate returns the    *)
(* same node for the same state and different nodes for different states.  *)
C7_GenerateIsInjective ==
    \A e1 \in issued : \A e2 \in issued : (e1[1] = e2[1]) <=> (e1[2] = e2[2])

(* Two states were generated, one of them twice, after a reset.            *)
C7_Witness ==
    /\ Cardinality(issued) >= 2
    /\ last_call.op = "generate"
    /\ ~last_call.first
    /\ node_pool.pool.arena.bump < Len(node_pool.pool.arena.memory)

PoolNodeFields(node) ==
    [client |-> NodeRef_get(node_pool.pool.arena.memory[node], client_field),
     state |-> BytesState(NodeRef_get(node_pool.pool.arena.memory[node],
                                      node_pool.pool.state_field)),
     header |-> read(node_pool.pool.arena.memory[node], 0, HEADER_SIZE)]

(* C8: right after a reset of a GridPool no in-bounds state has a node,    *)
(* and the first generate of a state after a reset returns a node not      *)
(* handed out since that reset, whose fields are the defaults (its state   *)
(* field holding the state); the search number wrapping changes nothing.   *)
C8_ResetForgetsEveryNode ==
    node_pool.kind = "GridPool"
        => /\ last_call.op = "reset"
                => \A state \in PoolStates : GridPool_get(node_pool.pool, state) = None
           /\ (last_call.op = "generate" /\ last_call.first)
                => /\ last_call.fresh
                   /\ PoolNodeFields(last_call.node) =
                        [client |-> ClientDefault, state |-> last_call.state,
                         header |-> NodeHeader(node_pool.pool.allocator.layout_id)]

(* After the reset on which the search number wrapped, a state that had a  *)
(* node in an earlier search is generated again, at an address whose       *)
(* memory the client had written to.                                       *)
C8_Witness ==
    /\ node_pool.kind = "GridPool"
    /\ node_pool.pool.search_number = 1
    /\ last_call.op = "generate"
    /\ last_call.first
    /\ Len(node_pool.pool.arena.memory) >= 2
    /\ \E n \in 1 .. Len(node_pool.pool.arena.memory) :
          /\ n > node_pool.pool.arena.bump
          /\ NodeRef_get(node_pool.pool.arena.memory[n], client_field)
                = ValueOf(F64, CLIENT_DIRTY)

(* C9: relaxed leaves the node queued, once, inserting it if it was not   *)
(* queued and moving it if it was; next returns None exactly when nothing  *)
(* is queued, and otherwise removes and returns a queued node that is <=   *)
(* every queued node under the comparator.                                 *)
C9_QueueReturnsMinimum ==
    /\ SeqToSet(queue_heap) = queued
    /\ Len(queue_heap) = Cardinality(queued)
    /\ popped.called
         => /\ (popped.ret = None) <=> (popped.before = {})
            /\ popped.ret # None
                 => /\ Unwrap(popped.ret) \in popped.before
                    /\ queued = popped.before \ {Unwrap(popped.ret)}
                    /\ \A m \in popped.before :
                          le_unchecked(queue_cmp, queue_nodes, Unwrap(popped.ret), m)

(* next returned one of three queued nodes, under the two-field            *)
(* comparator, the one returned having been repositioned by a decrease     *)
(* of its second field only.                                               *)
C9_Witness ==
    /\ popped.called
    /\ popped.ret # None
    /\ Cardinality(popped.before) >= 3
    /\ queue_cmp = <<"f", "h">>
    /\ \E m \in popped.before :
          /\ queue_nodes[m].f = queue_nodes[Unwrap(popped.ret)].f
          /\ queue_nodes[m].h > queue_nodes[Unwrap(popped.ret)].h

(* C10: under Dijkstra-style use the nodes next returns, in the order     *)
(* it returns them, have non-decreasing floor(g / bucket_width).           *)
C10_BucketsNonDecreasing ==
    \A i \in 1 .. (Len(returned) - 1) :
        returned[i][2] \div bucket_queue.bucket_width
            <= returned[i + 1][2] \div bucket_queue.bucket_width

(* Three nodes were returned from at least two buckets, one of them after  *)
(* its g had been lowered into an earlier bucket while it was queued.      *)
C10_Witness ==
    /\ Len(returned) >= 3
    /\ returned[1][2] \div bucket_queue.bucket_width
         < returned[3][2] \div bucket_queue.bucket_width
    /\ bucket_queue.bucket_width > 1
    /\ returned[2][2] > returned[3][2]

(***************************************************************************)
(* The grid component: a small grid as BitGrid::new leaves it and a wide   *)
(* one as read_bitgrid leaves a map without obstacles; cells are set, then *)
(* a row is read or a block scan is made.  On the wide grid the calls are  *)
(* on the columns near its two ends.  grid_call is the last call: of a set *)
(* whether its cell was inside the grid, whether it panicked and whether   *)
(* it changed a bit; of a read or a scan its arguments and what it         *)
(* returned.  A read leaves the grid as it is, so the calls that could     *)
(* follow it are those that could be made in its place, and a run ends     *)
(* with its read.                                                          *)
(***************************************************************************)
SmallWidth == 3
WideWidth == 58
GridRows == 2
EndColumns == 2

VARIABLES bitgrid, grid_call

GridVars == <<bitgrid, grid_call>>

NoGridCall == [op |-> "none"]

GridIdle ==
    /\ bitgrid = <<>>
    /\ grid_call = NoGridCall

GridInit ==
    /\ bitgrid \in {BitGrid_new(SmallWidth, GridRows),
                    SetEach(BitGrid_new(WideWidth, GridRows), Cells(WideWidth, GridRows))}
    /\ grid_call = NoGridCall

(* The columns on which calls are made: those within EndColumns of an end, *)
(* from the column before the grid to the column after it.                 *)
Columns(grid) ==
    {x \in -1 .. grid.width : x < EndColumns \/ x >= grid.width - EndColumns}

Rows(grid) == -1 .. grid.height

GridSet(x, y, traversable) ==
    /\ grid_call.op \in {"none", "set"}
    /\ \E r \in {BitGrid_set(bitgrid, x, y, traversable)} :
          /\ bitgrid' = r.map
          /\ grid_call' = [op |-> "set",
                           inside |-> unpadded_bounds_check(bitgrid, x, y),
                           panicked |-> r.panicked,
                           changed |-> (r.map # bitgrid)]

GridGetRowRight(x, y) ==
    /\ grid_call.op \in {"none", "set"}
    /\ padded_bounds_check(bitgrid, x, y)
    /\ grid_call' = [op |-> "get_row_right", x |-> x, y |-> y,
                     ret |-> get_row_right(bitgrid, x, y)]
    /\ UNCHANGED bitgrid

GridJumpRight(DY, x, y, all_1s) ==
    /\ grid_call.op \in {"none", "set"}
    /\ unpadded_bounds_check(bitgrid, x, y)
    /\ grid_call' = [op |-> "jump_right", x |-> x, y |-> y,
                     DY |-> DY, all_1s |-> all_1s,
                     ret |-> jump_right(DY, bitgrid, x, y, all_1s)]
    /\ UNCHANGED bitgrid

GridJumpLeft(DY, x, y, all_1s) ==
    /\ grid_call.op \in {"none", "set"}
    /\ unpadded_bounds_check(bitgrid, x, y)
    /\ grid_call' = [op |-> "jump_left", x |-> x, y |-> y,
                     DY |-> DY, all_1s |-> all_1s,
                     ret |-> jump_left(DY, bitgrid, x, y, all_1s)]
    /\ UNCHANGED bitgrid

(***************************************************************************)
(* C11 as stated: for (x, y) in the padded range, bit k of                 *)
(* get_row_right(x, y), for every k in 0..56, is the traversability of     *)
(* cell (x + k, y), a cell outside the padded grid being no traversable    *)
(* cell.  The row read runs on into the bytes of the rows that follow, so  *)
(* this fails on a grid narrower than 57 cells.                            *)
(***************************************************************************)
CellTraversable(grid, x, y) ==
    padded_bounds_check(grid, x, y) /\ get_unchecked(grid, x, y)

C11_RowRightIsTheRow ==
    grid_call.op = "get_row_right" =>
        \A k \in 0 .. (BLOCK_BITS - 1) :
            (k \in grid_call.ret)
                <=> CellTraversable(bitgrid, grid_call.x + k, grid_call.y)

(***************************************************************************)
(* C11 amended: for (x, y) in the padded range and every k in 0..56 with   *)
(* x + k no greater than the width, bit k of get_row_right(x, y) is what   *)
(* get(x + k, y) returns.                                                  *)
(***************************************************************************)
C11_RowRightWithinGrid ==
    grid_call.op = "get_row_right" =>
        \A k \in 0 .. (BLOCK_BITS - 1) :
            grid_call.x + k <= bitgrid.width =>
                ((k \in grid_call.ret)
                    <=> BitGrid_get(bitgrid, grid_call.x + k, grid_call.y).ret)

(* A row of the wide grid read from its first cell: 57 cells, the last of *)
(* them traversable and one before it not.                                 *)
C11_Witness ==
    /\ grid_call.op = "get_row_right"
    /\ grid_call.x = 0
    /\ bitgrid.width = WideWidth
    /\ (BLOCK_BITS - 1) \in grid_call.ret
    /\ ~(1 \in grid_call.ret)

(***************************************************************************)
(* C12: after any sequence of set calls every cell of the halo reads as    *)
(* untraversable, and a set outside the grid panics and changes no bit.    *)
(***************************************************************************)
Halo(grid) ==
    {c \in (-1 .. grid.width) \X (-1 .. grid.height) :
        c[1] = -1 \/ c[1] = grid.width \/ c[2] = -1 \/ c[2] = grid.height}

C12_HaloStaysUntraversable ==
    /\ \A c \in Halo(bitgrid) :
          BitGrid_get(bitgrid, c[1], c[2]) = [panicked |-> FALSE, ret |-> FALSE]
    /\ (grid_call.op = "set" /\ ~grid_call.inside)
          => grid_call.panicked /\ ~grid_call.changed

(* A set outside the grid, made on a grid that has traversable cells,      *)
(* panicked.                                                               *)
C12_Witness ==
    /\ grid_call.op = "set"
    /\ ~grid_call.inside
    /\ grid_call.panicked
    /\ bitgrid.bits # {}

(***************************************************************************)
(* C13: from an in-bounds cell jump_right and jump_left return (new_x,     *)
(* forced) with new_x in -1..width; the cell (new_x, y) is traversable if  *)
(* forced and untraversable if not.                                        *)
(***************************************************************************)
C13_ScanPostcondition ==
    grid_call.op \in {"jump_right", "jump_left"} =>
        /\ grid_call.ret[1] \in -1 .. bitgrid.width
        /\ grid_call.ret[2] = get_unchecked(bitgrid, grid_call.ret[1], grid_call.y)

(* A scan to the right on the wide grid that went on into a second block   *)
(* and stopped at a jump point.                                            *)
C13_Witness ==
    /\ grid_call.op = "jump_right"
    /\ grid_call.ret[1] - grid_call.x > BLOCK_STEP
    /\ grid_call.ret[2]

(***************************************************************************)
(* C14: the reference the Eytzinger lookup is compared with, a binary      *)
(* search over the sorted runs for the last run whose start is at most the *)
(* id.  lo .. hi - 1 are the positions still undecided; every run before   *)
(* lo starts at or before the id, every run from hi on starts after it.    *)
(***************************************************************************)
RECURSIVE BinarySearchLoop(_, _, _, _)
BinarySearchLoop(sorted, id, lo, hi) ==
    IF lo < hi
    THEN IF CpdEntry_start(sorted[lo + (hi - lo) \div 2 + 1]) <= id
         THEN BinarySearchLoop(sorted, id, lo + (hi - lo) \div 2 + 1, hi)
         ELSE BinarySearchLoop(sorted, id, lo, lo + (hi - lo) \div 2)
    ELSE lo

(* The move of the run found, None when every run starts after the id.     *)
BinarySearch(sorted, id) ==
    Only({IF n = 0 THEN None ELSE Some(CpdEntry_edge(sorted[n]))
          : n \in {BinarySearchLoop(sorted, id, 0, Len(sorted))}})

StrictlyIncreasingStarts(sorted) ==
    \A i \in 1 .. (Len(sorted) - 1) :
        CpdEntry_start(sorted[i]) < CpdEntry_start(sorted[i + 1])

(* C14: when the runs compressed from the masks have strictly increasing  *)
(* start ids, the lookup in the Eytzinger-ordered row returns the move of  *)
(* the run a binary search over the sorted runs finds for the id.          *)
C14_LookupIsBinarySearch ==
    (looked_up # None /\ StrictlyIncreasingStarts(sorted_runs(first_moves)))
        => Some(Unwrap(looked_up).move)
               = BinarySearch(sorted_runs(first_moves), Unwrap(looked_up).id)

(* A lookup in a row of four runs with increasing starts, where the run    *)
(* found is the third of the sorted runs, the root of the Eytzinger order, *)
(* and its move is not the default move.                                   *)
C14_Witness ==
    /\ looked_up # None
    /\ Len(Unwrap(row)) = 4
    /\ StrictlyIncreasingStarts(sorted_runs(first_moves))
    /\ Unwrap(row)[1] = sorted_runs(first_moves)[3]
    /\ Unwrap(looked_up).id = CpdEntry_start(Unwrap(row)[1])
    /\ Unwrap(looked_up).move # 0

(***************************************************************************)
(* The canonical component: canonical_successors is called on a            *)
(* neighbourhood with a direction of travel.                               *)
(***************************************************************************)
VARIABLES canonical_nb, canonical_call

CanonicalVars == <<canonical_nb, canonical_call>>

CanonicalIdle ==
    /\ canonical_nb = {}
    /\ canonical_call = None

(* Every neighbourhood get_neighborhood can return.                        *)
CanonicalInit ==
    /\ canonical_nb \in SUBSET Direction
    /\ canonical_call = None

CanonicalSuccessors(going) ==
    /\ canonical_call = None
    /\ canonical_call' = Some([going |-> going,
                               successors |-> canonical_successors(canonical_nb, going)])
    /\ UNCHANGED canonical_nb

(* C15: the canonical successors for a direction of travel are            *)
(* traversable in the neighbourhood and are canonical successors of the    *)
(* neighbourhood when there is no direction of travel.                     *)
C15_CanonicalWithinNeighbourhood ==
    (canonical_call # None /\ Unwrap(canonical_call).going # None)
        => /\ Unwrap(canonical_call).successors \subseteq canonical_nb
           /\ Unwrap(canonical_call).successors
                  \subseteq canonical_successors(canonical_nb, None)

(* Travelling north past an obstacle behind on the west: the forced west   *)
(* neighbour and the diagonal ahead of it are successors, the traversable  *)
(* south is not.                                                           *)
C15_Witness ==
    /\ canonical_call # None
    /\ Unwrap(canonical_call).going = Some(North)
    /\ {West, NorthWest} \subseteq Unwrap(canonical_call).successors
    /\ South \in canonical_nb
    /\ Unwrap(canonical_call).successors # canonical_successors(canonical_nb, None)

(***************************************************************************)
(* The layout component: threads create builders concurrently.  A thread   *)
(* in NodeBuilder::new first takes its id from LAYOUT_ID with one atomic   *)
(* fetch_add, and in a later step aborts the process or makes the builder. *)
(* Each builder gets a field, is built and allocates a node; a node of one *)
(* builder is read or written with the member pointer of any builder.      *)
(***************************************************************************)
MaxThreads == 2

VARIABLES LAYOUT_ID, threads, layouts, aborted, access

LayoutVars == <<LAYOUT_ID, threads, layouts, aborted, access>>

Threads == 1 .. MaxThreads

LayoutField == [size |-> 4, align |-> 4]

LayoutIdle ==
    /\ LAYOUT_ID = 0
    /\ threads = <<>>
    /\ layouts = <<>>
    /\ aborted = FALSE
    /\ access = None

LayoutInit ==
    /\ LAYOUT_ID = 0
    /\ threads = [t \in Threads |-> None]
    /\ layouts = <<>>
    /\ aborted = FALSE
    /\ access = None

(* LayoutId::new, up to and including the fetch_add.                       *)
LayoutIdFetch(t) ==
    /\ ~aborted
    /\ threads[t] = None
    /\ \E r \in {fetch_add(LAYOUT_ID, 1)} :
          /\ LAYOUT_ID' = r.counter
          /\ threads' = [threads EXCEPT ![t] = Some(r.ret)]
    /\ UNCHANGED <<layouts, aborted, access>>

(* The rest of LayoutId::new and of NodeBuilder::new.                      *)
LayoutNewBuilder(t) ==
    /\ ~aborted
    /\ threads[t] # None
    /\ IF Unwrap(threads[t]) > LAYOUT_ID_MAX
       THEN /\ aborted' = TRUE
            /\ UNCHANGED layouts
       ELSE /\ layouts' = Append(layouts, [made |-> NodeBuilder_new(Unwrap(threads[t])),
                                           member |-> None, node |-> None])
            /\ UNCHANGED aborted
    /\ threads' = [threads EXCEPT ![t] = None]
    /\ UNCHANGED <<LAYOUT_ID, access>>

LayoutAddField(b) ==
    /\ ~aborted
    /\ layouts[b].member = None
    /\ layouts[b].node = None
    /\ \E r \in {add_field(layouts[b].made, LayoutField, ValueOf(LayoutField, 0))} :
          layouts' = [layouts EXCEPT ![b].made = r.builder,
                                     ![b].member = Some(r.member)]
    /\ UNCHANGED <<LAYOUT_ID, threads, aborted, access>>

(* builder.build().new_node()                                              *)
LayoutNewNode(b) ==
    /\ ~aborted
    /\ layouts[b].member # None
    /\ layouts[b].node = None
    /\ layouts' = [layouts EXCEPT ![b].node = Some(new_node(build(layouts[b].made)))]
    /\ UNCHANGED <<LAYOUT_ID, threads, aborted, access>>

(* NodeRef::set on the node of builder n with the member of builder m:     *)
(* check_layout panics before the node is written.                         *)
LayoutSet(n, m) ==
    /\ ~aborted
    /\ layouts[n].node # None
    /\ layouts[m].member # None
    /\ IF check_layout(Unwrap(layouts[n].node), Unwrap(layouts[m].member).layout_id)
       THEN /\ layouts' = [layouts EXCEPT ![n].node =
                             Some(NodeRef_set(Unwrap(layouts[n].node),
                                              Unwrap(layouts[m].member),
                                              ValueOf(LayoutField, 1)))]
            /\ access' = Some([op |-> "set", node |-> n, member |-> m,
                               panicked |-> FALSE, touched |-> TRUE])
       ELSE /\ UNCHANGED layouts
            /\ access' = Some([op |-> "set", node |-> n, member |-> m,
                               panicked |-> TRUE, touched |-> FALSE])
    /\ UNCHANGED <<LAYOUT_ID, threads, aborted>>

(* NodeRef::get: check_layout panics before the node is read.              *)
LayoutGet(n, m) ==
    /\ ~aborted
    /\ layouts[n].node # None
    /\ layouts[m].member # None
    /\ access' = IF check_layout(Unwrap(layouts[n].node), Unwrap(layouts[m].member).layout_id)
                 THEN Some([op |-> "get", node |-> n, member |-> m,
                            panicked |-> FALSE, touched |-> TRUE])
                 ELSE Some([op |-> "get", node |-> n, member |-> m,
                            panicked |-> TRUE, touched |-> FALSE])
    /\ UNCHANGED <<LAYOUT_ID, threads, layouts, aborted>>

BuildItems == 4
BuildWorkers == 2

VARIABLES build_items, build_workers, build_full, build_progress, build_errors,
          build_result

BuildVars ==
    <<build_items, build_workers, build_full, build_progress, build_errors,
      build_result>>

BuildIdle ==
    /\ build_items = <<>>
    /\ build_workers = <<>>
    /\ build_full = FALSE
    /\ build_progress = 0
    /\ build_errors = <<>>
    /\ build_result = None

BuildInit ==
    /\ \E num_jps \in 1 .. BuildItems : build_items = [i \in 1 .. num_jps |-> "waiting"]
    /\ build_workers = [w \in 1 .. BuildWorkers |-> None]
    /\ build_full = FALSE
    /\ build_progress = 0
    /\ build_errors = <<>>
    /\ build_result = None

(* A variant that does not wait for every worker.                          *)
WorkersDone_some(workers) == \E w \in DOMAIN workers : workers[w] = None

WorkersDone(workers) == \A w \in DOMAIN workers : workers[w] = None

(* A worker takes the item and computes its row.                           *)
BuildTake(w, i) ==
    /\ build_result = None
    /\ ~build_full
    /\ build_workers[w] = None
    /\ build_items[i] = "waiting"
    /\ build_items' = [build_items EXCEPT ![i] = "running"]
    /\ build_workers' = [build_workers EXCEPT ![w] = Some(i)]
    /\ UNCHANGED <<build_full, build_progress, build_errors, build_result>>

(* The worker locks progress, counts the item and calls the sink.          *)
BuildReport(w, ok) ==
    /\ build_result = None
    /\ build_workers[w] # None
    /\ build_progress' = build_progress + 1
    /\ build_items' = [build_items EXCEPT ![Unwrap(build_workers[w])] =
                          IF ok THEN "written" ELSE "failed"]
    /\ build_errors' = IF ok THEN build_errors
                       ELSE Append(build_errors, Unwrap(build_workers[w]))
    /\ build_full' = (build_full \/ ~ok)
    /\ build_workers' = [build_workers EXCEPT ![w] = None]
    /\ UNCHANGED build_result

(* try_for_each_init returns.                                              *)
BuildReturn ==
    /\ build_result = None
    /\ WorkersDone(build_workers)
    /\ build_full \/ \A i \in DOMAIN build_items : build_items[i] # "waiting"
    /\ IF build_errors = <<>>
       THEN build_result' = Some([ok |-> TRUE, item |-> 0])
       ELSE \E k \in DOMAIN build_errors :
               build_result' = Some([ok |-> FALSE, item |-> build_errors[k]])
    /\ UNCHANGED <<build_items, build_workers, build_full, build_progress, build_errors>>

ToppingWidth == 3
ToppingHeight == 2
ToppingRows == 1

VARIABLES topping, topping_path

ToppingVars == <<topping, topping_path>>

ToppingIdle ==
    /\ topping = <<>>
    /\ topping_path = None

(* The row that holds move m for every id.                                 *)
RowOfMove(num_ids, m) == compress([i \in 1 .. num_ids |-> {m}])

LoadedCpds(width, height) ==
    {[mapper |-> [c \in Cells(width, height) |-> c[2] * width + c[1]],
      partial_cpd |-> [c \in Cells(width, height) |->
                          IF c \in DOMAIN moves
                          THEN Some(RowOfMove(width * height, moves[c])) ELSE None]]
     : moves \in UNION {[S -> Direction] :
                          S \in {T \in SUBSET Cells(width, height) :
                                   Cardinality(T) <= ToppingRows}}}

ToppingInit ==
    /\ \E trav \in SUBSET Cells(ToppingWidth, ToppingHeight) :
       \E grid \in {GridOf(ToppingWidth, ToppingHeight, trav)} :
       \E db \in {JumpDatabase_new(grid)} :
       \E cpd \in LoadedCpds(ToppingWidth, ToppingHeight) :
       \E from \in trav : \E goal \in trav :
          topping = [map |-> grid, jump_db |-> db, cpd |-> cpd,
                     start |-> from, target |-> goal]
    /\ topping_path = None

ToppingGetPath ==
    /\ topping_path = None
    /\ topping_path' = Some(ToppingPlus_get_path(topping.map, topping.jump_db, topping.cpd,
                                                 topping.start, topping.target))
    /\ UNCHANGED topping

(* C18: when the start is not the target, get_path has walked from at     *)
(* least one start successor and the canonicality check rejected every one *)
(* of them, get_path has failed and has not returned a path.               *)
C18_AllRejectedFails ==
    (/\ topping_path # None
     /\ topping.start # topping.target
     /\ Unwrap(topping_path).starts > 0
     /\ Unwrap(topping_path).rejected = Unwrap(topping_path).starts)
        => Unwrap(topping_path).outcome # "returned"

(***************************************************************************)
(* The id-space component: a row is built for a state space of state_ids   *)
(* ids, by CpdRow::compute or by the partial-cell build.  The vector of    *)
(* first-move masks is kept as its pieces, <<length, mask>> with a mask    *)
(* that is not 0: an element whose mask is the mask of the element before  *)
(* it leaves current_id and current_moves of compress_runs as they are, so *)
(* the loop over the enumerated vector is the loop over the first element  *)
(* of each piece.                                                          *)
(***************************************************************************)
MaxPieces == 3
SmallIds == 4

VARIABLES state_ids, first_move_pieces, built_row

IdSpaceVars == <<state_ids, first_move_pieces, built_row>>

IdSpaceIdle ==
    /\ state_ids = 0
    /\ first_move_pieces = <<>>
    /\ built_row = None

(* 1 << 26                                                                 *)
ID_LIMIT == 2^START_BITS

IdCounts == {SmallIds, ID_LIMIT - 1, ID_LIMIT, ID_LIMIT + SmallIds}

(* The vectors of n masks whose pieces end at the ends in cuts and at n.   *)
RECURSIVE PiecesEndingAt(_, _)
PiecesEndingAt(ends, from) ==
    IF ends = <<>> THEN {<<>>}
    ELSE {<< <<Head(ends) - from, m>> >> \o rest :
            m \in MoveMasks \ {{}}, rest \in PiecesEndingAt(Tail(ends), Head(ends))}

RECURSIVE SortedSeq(_)
SortedSeq(S) == IF S = {} THEN <<>> ELSE <<Min(S)>> \o SortedSeq(S \ {Min(S)})

IdSpaceInit ==
    /\ state_ids \in IdCounts
    /\ \E cuts \in SUBSET {1, state_ids - 2, state_ids - 1} :
          /\ Cardinality(cuts) < MaxPieces
          /\ first_move_pieces \in PiecesEndingAt(SortedSeq(cuts \cup {state_ids}), 0)
    /\ built_row = None

(* first_move_bits.into_iter().enumerate(), without the elements that      *)
(* repeat the mask before them.                                            *)
RECURSIVE enumerate_pieces(_, _)
enumerate_pieces(pieces, id) ==
    IF pieces = <<>> THEN <<>>
    ELSE << <<id, Head(pieces)[2]>> >> \o enumerate_pieces(Tail(pieces), id + Head(pieces)[1])

(* CpdRow::compute, from its assertion on.                                 *)
CpdRow_compute(num_ids, pieces) ==
    IF num_ids < ID_LIMIT
    THEN [panicked |-> FALSE, row |-> compress_runs(enumerate_pieces(pieces, 0))]
    ELSE [panicked |-> TRUE, row |-> <<>>]

(* The closure of PartialCellCpd::compute_impl, from CpdRow::compress on.  *)
PartialCellCpd_compute_impl(num_ids, pieces) ==
    [panicked |-> FALSE, row |-> compress_runs(enumerate_pieces(pieces, 0))]

IdSpaceCompute ==
    /\ built_row = None
    /\ built_row' = Some([by |-> "CpdRow::compute"]
                         @@ CpdRow_compute(state_ids, first_move_pieces))
    /\ UNCHANGED <<state_ids, first_move_pieces>>

IdSpacePartialCell ==
    /\ built_row = None
    /\ built_row' = Some([by |-> "PartialCellCpd::compute_impl"]
                         @@ PartialCellCpd_compute_impl(state_ids, first_move_pieces))
    /\ UNCHANGED <<state_ids, first_move_pieces>>

(* C19: a row built for a state space of 2^26 or more ids was not built:  *)
(* the build panicked, whichever way the row was built.                    *)
C19_IdOverflowPanics ==
    (built_row # None /\ state_ids >= ID_LIMIT)
        => Unwrap(built_row).panicked /\ Unwrap(built_row).row = <<>>

(* A row built by the partial-cell build for more than 2^26 ids, with a    *)
(* run that starts at an id of 2^26 or more: the start the entry holds is  *)
(* not the id the run starts at, and the lookup of the last id returns a   *)
(* move that is not in its mask.                                           *)
C19_Witness ==
    /\ built_row # None
    /\ Unwrap(built_row).by = "PartialCellCpd::compute_impl"
    /\ ~Unwrap(built_row).panicked
    /\ \E k \in DOMAIN first_move_pieces :
          /\ enumerate_pieces(first_move_pieces, 0)[k][1] >= ID_LIMIT
          /\ \A e \in DOMAIN Unwrap(built_row).row :
                CpdEntry_start(Unwrap(built_row).row[e])
                    # enumerate_pieces(first_move_pieces, 0)[k][1]
    /\ lookup(Unwrap(built_row).row, state_ids - 1)
          \notin first_move_pieces[Len(first_move_pieces)][2]

(***************************************************************************)
(* C20: the four bytes of the entry at position e of the saved row (after  *)
(* the four bytes of the length), least significant first, and the fields  *)
(* read from them in two ways.                                             *)
(***************************************************************************)
SavedEntry(e) == SubSeq(Unwrap(saved), 4 * e + 1, 4 * e + 4)

(* start in the 26 least significant bits, move in the 6 bits above them.  *)
StartInLowBits(b) == b[1] + 2^8 * b[2] + 2^16 * b[3] + 2^24 * (b[4] % 4)

MoveInHighBits(b) == b[4] \div 4

(* move in the 6 least significant bits, start in the 26 bits above them.  *)
MoveInLowBits(b) == b[1] % 64

StartInHighBits(b) == b[1] \div 64 + 2^2 * b[2] + 2^10 * b[3] + 2^18 * b[4]

(* C20, as stated: every entry of the saved row holds the move of its run *)
(* in its 6 least significant bits and the start id of the run in the 26   *)
(* bits above them.                                                        *)
C20_MoveInLowSixBits ==
    saved # None
        => \A e \in DOMAIN Unwrap(row) :
              /\ MoveInLowBits(SavedEntry(e)) = CpdEntry_edge(Unwrap(row)[e])
              /\ StartInHighBits(SavedEntry(e)) = CpdEntry_start(Unwrap(row)[e])

(* C20, amended: every entry of the saved row holds the start id of its   *)
(* run in its 26 least significant bits and the move of the run in the 6   *)
(* bits above them; the start id is an id of the masks, and the move is a  *)
(* move of that id's mask when the mask is not empty.                      *)
C20_StartInLowTwentySixBits ==
    saved # None
        => /\ Len(Unwrap(saved)) = 4 + 4 * Len(Unwrap(row))
           /\ StartInLowBits(SubSeq(Unwrap(saved), 1, 4)) = Len(Unwrap(row))
           /\ \A e \in DOMAIN Unwrap(row) :
                 /\ StartInLowBits(SavedEntry(e)) = CpdEntry_start(Unwrap(row)[e])
                 /\ MoveInHighBits(SavedEntry(e)) = CpdEntry_edge(Unwrap(row)[e])
                 /\ StartInLowBits(SavedEntry(e)) \in 0 .. Max({0, Len(first_moves) - 1})
                 /\ (/\ StartInLowBits(SavedEntry(e)) < Len(first_moves)
                     /\ first_moves[StartInLowBits(SavedEntry(e)) + 1] # {})
                       => MoveInHighBits(SavedEntry(e))
                             \in first_moves[StartInLowBits(SavedEntry(e)) + 1]

(* A saved row with an entry of a run that starts at id 2 or later with    *)
(* move 63: its last byte is not 0 and its first byte is the start id.     *)
C20_Witness ==
    /\ saved # None
    /\ \E e \in DOMAIN Unwrap(row) :
          /\ SavedEntry(e)[1] >= 2
          /\ SavedEntry(e)[4] = 252
          /\ first_moves[SavedEntry(e)[1] + 1] = {WORD_BITS - 1}

(***************************************************************************)
(* C22: the row compressed from the empty sequence of first-move masks has *)
(* no run.                                                                 *)
(***************************************************************************)
C22_EmptyInputEmptyRow ==
    (row # None /\ first_moves = <<>>) => Len(Unwrap(row)) = 0

(* The empty sequence was compressed.                                      *)
C22_Witness ==
    /\ row # None
    /\ first_moves = <<>>
    /\ Unwrap(row) = <<CpdEntry(0, WNot({}))>>

(***************************************************************************)
(* The auxiliary component: an auxiliary container is built with           *)
(* new_auxiliary from a closure init over the states of a map of           *)
(* aux_width by aux_height cells, and a cell of it is read with            *)
(* Index<(i32, i32)>.  aux_calls is the set of the arguments the closure   *)
(* was called with.                                                        *)
(***************************************************************************)
MaxSide == 3

VARIABLES aux_width, aux_height, aux_init, auxiliary, aux_calls, aux_read

AuxiliaryVars == <<aux_width, aux_height, aux_init, auxiliary, aux_calls, aux_read>>

(* The arguments Grid::new calls f with: `(0..h).flat_map(move |x|         *)
(* (0..w).map(move |y| (x as i32, y as i32)))`.                            *)
Grid_new_calls(width, height) ==
    {<<x, y>> : x \in 0 .. (height - 1), y \in 0 .. (width - 1)}

(* EightConnectedDomain::new_auxiliary: the closure |x, y| init((x, y)).   *)
new_auxiliary(width, height, init) ==
    Grid_new(width, height, [c \in Grid_new_calls(width, height) |-> init[c]])

(* Index<(i32, i32)>::index: the cell, or a panic of the bounds check.     *)
Grid_Index_index(grid, x, y) ==
    IF Grid_bounds_check(grid, x, y)
    THEN [panicked |-> FALSE, value |-> Some(grid.cells[Grid_index(grid, x, y) + 1])]
    ELSE [panicked |-> TRUE, value |-> None]

AuxiliaryIdle ==
    /\ aux_width = 0
    /\ aux_height = 0
    /\ aux_init = <<>>
    /\ auxiliary = None
    /\ aux_calls = {}
    /\ aux_read = None

AuxiliaryInit ==
    /\ aux_width \in 1 .. MaxSide
    /\ aux_height \in 1 .. MaxSide
    /\ aux_init \in [(0 .. (MaxSide - 1)) \X (0 .. (MaxSide - 1)) -> BOOLEAN]
    /\ auxiliary = None
    /\ aux_calls = {}
    /\ aux_read = None

AuxiliaryNew ==
    /\ auxiliary = None
    /\ auxiliary' = Some(new_auxiliary(aux_width, aux_height, aux_init))
    /\ aux_calls' = Grid_new_calls(aux_width, aux_height)
    /\ UNCHANGED <<aux_width, aux_height, aux_init, aux_read>>

AuxiliaryIndex(x, y) ==
    /\ auxiliary # None
    /\ aux_read = None
    /\ aux_read' = Some([at |-> <<x, y>>, read |-> Grid_Index_index(Unwrap(auxiliary), x, y)])
    /\ UNCHANGED <<aux_width, aux_height, aux_init, auxiliary, aux_calls>>

(***************************************************************************)
(* C30: the closure is called only with the states of the map, and the     *)
(* cell of the auxiliary container at state (x, y) holds init((x, y)).     *)
(***************************************************************************)
C30_CellHoldsInitOfItsState ==
    auxiliary # None
        => /\ \A c \in aux_calls : c[1] < aux_width /\ c[2] < aux_height
           /\ (aux_read # None /\ ~Unwrap(aux_read).read.panicked)
                 => Unwrap(Unwrap(aux_read).read.value) = aux_init[Unwrap(aux_read).at]

(* A cell off the diagonal of a container that is not square was read.     *)
C30_Witness ==
    /\ aux_read # None
    /\ ~Unwrap(aux_read).read.panicked
    /\ aux_width # aux_height
    /\ Unwrap(aux_read).at[1] # Unwrap(aux_read).at[2]

(***************************************************************************)
(* mkpath-grid-gb: Rectangle of PartialCellBb.  high_x and high_y are      *)
(* exclusive.                                                              *)
(***************************************************************************)
Rectangle_empty == [low_x |-> 0, low_y |-> 0, high_x |-> 0, high_y |-> 0]

Rectangle_is_empty(r) == r.low_x = r.high_x /\ r.low_y = r.high_y

Rectangle_grow(r, x, y) ==
    IF Rectangle_is_empty(r)
    THEN [low_x |-> x, low_y |-> y, high_x |-> x + 1, high_y |-> y + 1]
    ELSE [low_x |-> Min({r.low_x, x}), low_y |-> Min({r.low_y, y}),
          high_x |-> Max({r.high_x, x + 1}), high_y |-> Max({r.high_y, y + 1})]

growth(low, high, c) == Max({low - c, c - high, 0})

Rectangle_area_increase_from_grow(r, x, y) ==
    IF Rectangle_is_empty(r) THEN 1
    ELSE growth(r.low_x, r.high_x, x) * (r.high_y - r.low_y)
         + growth(r.low_y, r.high_y, y) * (r.high_x - r.low_x)
         + growth(r.low_x, r.high_x, x) * growth(r.low_y, r.high_y, y)

(* fm.iter().min_by_key(key): directions are iterated in the order of      *)
(* their discriminants and the first of several minima is returned.        *)
min_by_key(fm, key) ==
    Min({d \in fm : \A e \in fm : key[d] <= key[e]})

(* The callback of fm_computer.compute in PartialCellBb::compute, on the   *)
(* rectangles result and the tie-broken first moves fm of cell (x, y).     *)
PartialCellBb_visit(result, x, y, fm) ==
    Only({[result EXCEPT ![best] = Rectangle_grow(result[best], x, y)]
          : best \in {min_by_key(fm, [d \in fm |->
                         Rectangle_area_increase_from_grow(result[d], x, y)])}})

(***************************************************************************)
(* The bounding box component: the rectangles of one source are grown by   *)
(* the cells the first-move computation visits, each cell once.            *)
(* bb_visit is the last visit: the cell, its first moves, and the          *)
(* rectangles before it.                                                   *)
(***************************************************************************)
BbSide == 3
BbMoves == 2
BbVisits == 3

VARIABLES bb_result, bb_visited, bb_visit

BbVars == <<bb_result, bb_visited, bb_visit>>

BbIdle ==
    /\ bb_result = <<>>
    /\ bb_visited = {}
    /\ bb_visit = None

BbInit ==
    /\ bb_result = [d \in Direction |-> Rectangle_empty]
    /\ bb_visited = {}
    /\ bb_visit = None

BbVisit(x, y, fm) ==
    /\ <<x, y>> \notin bb_visited
    /\ Cardinality(bb_visited) < BbVisits
    /\ bb_result' = PartialCellBb_visit(bb_result, x, y, fm)
    /\ bb_visited' = bb_visited \cup {<<x, y>>}
    /\ bb_visit' = Some([x |-> x, y |-> y, fm |-> fm, before |-> bb_result])

(***************************************************************************)
(* C23: the direction whose rectangle grew is a direction of the first     *)
(* moves whose rectangle grows the least in area, and the value            *)
(* area_increase_from_grow gave for a direction is the area of its         *)
(* rectangle after grow minus the area before.                             *)
(***************************************************************************)
Area(r) == (r.high_x - r.low_x) * (r.high_y - r.low_y)

AreaIncrease(r, x, y) == Area(Rectangle_grow(r, x, y)) - Area(r)

C23_GrowsTheLeastArea ==
    bb_visit # None
        => /\ \A d \in Unwrap(bb_visit).fm :
                 Rectangle_area_increase_from_grow(Unwrap(bb_visit).before[d],
                                                   Unwrap(bb_visit).x, Unwrap(bb_visit).y)
                    = AreaIncrease(Unwrap(bb_visit).before[d],
                                   Unwrap(bb_visit).x, Unwrap(bb_visit).y)
           /\ \E best \in Unwrap(bb_visit).fm :
                 /\ bb_result = [Unwrap(bb_visit).before EXCEPT ![best] =
                                    Rectangle_grow(@, Unwrap(bb_visit).x, Unwrap(bb_visit).y)]
                 /\ \A d \in Unwrap(bb_visit).fm :
                       AreaIncrease(Unwrap(bb_visit).before[best],
                                    Unwrap(bb_visit).x, Unwrap(bb_visit).y)
                          <= AreaIncrease(Unwrap(bb_visit).before[d],
                                          Unwrap(bb_visit).x, Unwrap(bb_visit).y)

(* A cell with two first moves was visited when both rectangles had cells. *)
C23_Witness ==
    /\ bb_visit # None
    /\ Cardinality(Unwrap(bb_visit).fm) = 2
    /\ \A d \in Unwrap(bb_visit).fm : ~Rectangle_is_empty(Unwrap(bb_visit).before[d])

(***************************************************************************)
(* The bounded scan component: a block scan with DY of -1 or 1 is made on  *)
(* the middle row of a wide map of three rows, from a cell near the end    *)
(* the scan leaves, with a bound all_1s.  The map has up to MaxBlocked     *)
(* untraversable cells, in the columns BlockedColumns.  bounded_call is    *)
(* the call and what it returned.                                          *)
(***************************************************************************)
BoundedRows == 3
MaxBlocked == 3
BlockedColumns == {1, 2, WideWidth - 3, WideWidth - 2}

VARIABLES bounded_map, bounded_call

BoundedVars == <<bounded_map, bounded_call>>

BoundedIdle ==
    /\ bounded_map = <<>>
    /\ bounded_call = NoGridCall

BoundedInit ==
    /\ \E blocked \in SUBSET (BlockedColumns \X (0 .. (BoundedRows - 1))) :
          /\ Cardinality(blocked) <= MaxBlocked
          /\ bounded_map = SetEach(BitGrid_new(WideWidth, BoundedRows),
                                   Cells(WideWidth, BoundedRows) \ blocked)
    /\ bounded_call = NoGridCall

BoundedJumpRight(DY, x, y, all_1s) ==
    /\ bounded_call.op = "none"
    /\ unpadded_bounds_check(bounded_map, x, y)
    /\ bounded_call' = [op |-> "jump_right", x |-> x, y |-> y,
                        DY |-> DY, all_1s |-> all_1s,
                        ret |-> jump_right(DY, bounded_map, x, y, all_1s)]
    /\ UNCHANGED bounded_map

BoundedJumpLeft(DY, x, y, all_1s) ==
    /\ bounded_call.op = "none"
    /\ unpadded_bounds_check(bounded_map, x, y)
    /\ bounded_call' = [op |-> "jump_left", x |-> x, y |-> y,
                        DY |-> DY, all_1s |-> all_1s,
                        ret |-> jump_left(DY, bounded_map, x, y, all_1s)]
    /\ UNCHANGED bounded_map

(***************************************************************************)
(* C29: when every cell of the row on the -DY side from the start column   *)
(* up to, not including, the bound all_1s is traversable, a block scan     *)
(* with DY of -1 or 1 returns what the same scan returns with the bound at *)
(* its start column.                                                       *)
(***************************************************************************)
AllOnes(grid, from, to, y) ==
    \A c \in (Min({from, to}) .. Max({from, to})) \ {to} : get_unchecked(grid, c, y)

C29_BoundedScanIsPlainScan ==
    (/\ bounded_call.op \in {"jump_right", "jump_left"}
     /\ AllOnes(bounded_map, bounded_call.x, bounded_call.all_1s,
                bounded_call.y - bounded_call.DY))
        => bounded_call.ret =
              IF bounded_call.op = "jump_right"
              THEN jump_right(bounded_call.DY, bounded_map, bounded_call.x,
                              bounded_call.y, bounded_call.x)
              ELSE jump_left(bounded_call.DY, bounded_map, bounded_call.x,
                             bounded_call.y, bounded_call.x)

(* A scan to the right whose bound let it skip the row on the -DY side,    *)
(* and which stopped in its first block at a jump point.                   *)
C29_Witness ==
    /\ bounded_call.op = "jump_right"
    /\ bounded_call.x <= bounded_call.all_1s - BLOCK_STEP
    /\ AllOnes(bounded_map, bounded_call.x, bounded_call.all_1s,
               bounded_call.y - bounded_call.DY)
    /\ bounded_call.ret[1] - bounded_call.x < BLOCK_STEP
    /\ bounded_call.ret[2]

(***************************************************************************)
(* C27: between the operations of the priority queue the node at heap      *)
(* position i has index i and no node is at two positions; the nodes of    *)
(* the heap are the nodes relaxed and not yet returned, each once, also    *)
(* after relaxed was called again on a queued node or on a node that next  *)
(* had returned.                                                           *)
(***************************************************************************)
C27_IndexIsHeapPosition ==
    /\ \A i \in DOMAIN queue_heap : queue_nodes[queue_heap[i]].index = i - 1
    /\ \A i, j \in DOMAIN queue_heap : queue_heap[i] = queue_heap[j] => i = j
    /\ \A n \in QueueNodes : Cardinality({i \in DOMAIN queue_heap : queue_heap[i] = n})
                                = IF n \in queued THEN 1 ELSE 0

(* A node that next had returned is in the heap again, behind another      *)
(* node, in a heap of three.                                               *)
C27_Witness ==
    /\ Len(queue_heap) = 3
    /\ \E i \in 2 .. 3 : queue_heap[i] \in queue_returned

(***************************************************************************)
(* The nodes the bucket queue should hold.  The client lowers g at each    *)
(* relaxed, so a node was relaxed since its last return when its g is      *)
(* below the g it was returned with.                                       *)
(***************************************************************************)
ReturnsOf(n) == {i \in DOMAIN returned : returned[i][1] = n}

RelaxedSinceReturn(n) ==
    /\ ReturnsOf(n) # {}
    /\ bucket_queue.nodes[n].g < returned[Max(ReturnsOf(n))][2]

AwaitsNext(n) ==
    /\ bucket_queue.nodes[n].g # INFINITY
    /\ ReturnsOf(n) # {} => RelaxedSinceReturn(n)

SlotsOf(n) ==
    {s \in {<<i, k>> : i \in DOMAIN bucket_queue.queue, k \in 1 .. MaxBucketNodes} :
        s[2] <= Len(bucket_queue.queue[s[1]]) /\ bucket_queue.queue[s[1]][s[2]] = n}

(***************************************************************************)
(* C25: between the operations of the bucket queue every node stored in    *)
(* queue[i] has floor(g / bucket_width) = bucket_number + i, and its       *)
(* bucket_pos is that bucket number and its slot in queue[i]; as long as   *)
(* no node was relaxed after next returned it, the nodes stored are the    *)
(* nodes relaxed and not yet returned, each in one slot.                   *)
(***************************************************************************)
C25_StoredWhereItsKeySays ==
    ~bucket_panicked =>
        /\ \A i \in DOMAIN bucket_queue.queue : \A k \in DOMAIN bucket_queue.queue[i] :
              /\ bucket_queue.nodes[bucket_queue.queue[i][k]].g \div bucket_queue.bucket_width
                    = bucket_queue.bucket_number + (i - 1)
              /\ bucket_queue.nodes[bucket_queue.queue[i][k]].bucket_pos
                    = <<bucket_queue.bucket_number + (i - 1), k - 1>>
        /\ (\A n \in BucketNodes : ~RelaxedSinceReturn(n))
              => \A m \in BucketNodes :
                    Cardinality(SlotsOf(m)) = IF AwaitsNext(m) THEN 1 ELSE 0

(* Rotation and removal have both acted: next has moved on from the first  *)
(* bucket, and nodes are stored in two buckets.                            *)
C25_Witness ==
    /\ ~bucket_panicked
    /\ bucket_queue.bucket_number > 0
    /\ returned # <<>>
    /\ \A n \in BucketNodes : ~RelaxedSinceReturn(n)
    /\ Cardinality({i \in DOMAIN bucket_queue.queue : bucket_queue.queue[i] # <<>>}) >= 2

(***************************************************************************)
(* C28: a node that next has returned and that was relaxed since is stored *)
(* in the bucket of its g, and the relaxed calls on it neither panicked    *)
(* nor took another node out of its slot: every node relaxed since its     *)
(* last return, or never returned, is stored once, in the bucket of its g. *)
(***************************************************************************)
C28_ReturnedNodeIsQueuedAgain ==
    (\E n \in BucketNodes : RelaxedSinceReturn(n))
        => /\ ~bucket_panicked
           /\ \A m \in BucketNodes :
                 AwaitsNext(m)
                    => /\ Cardinality(SlotsOf(m)) = 1
                       /\ \A s \in SlotsOf(m) :
                             bucket_queue.nodes[m].g \div bucket_queue.bucket_width
                                = bucket_queue.bucket_number + (s[1] - 1)

(* A node that next had returned was relaxed again.                        *)
C28_Witness ==
    \E n \in BucketNodes : RelaxedSinceReturn(n)

(***************************************************************************)
(* The sink component: PartialCellCpd::compute_to_file.  The workers of    *)
(* compute_impl each compute the row of a jump point and then lock the     *)
(* progress mutex; the closure of compute_to_file, called with the lock    *)
(* held, writes x, y and the row to the writer, each with write_all, and   *)
(* stops at the first write that fails.  The guard is dropped when the     *)
(* closure of the worker returns.  The writer holds, for each write that   *)
(* succeeded, the jump point and the part written.                         *)
(***************************************************************************)
SinkItems == 3
SinkWorkers == 2

VARIABLES sink_items, sink_workers, sink_mutex, sink_to, sink_full, sink_progress,
          sink_result

SinkVars == <<sink_items, sink_workers, sink_mutex, sink_to, sink_full, sink_progress,
              sink_result>>

(* The parts of a record, in the order the closure writes them.            *)
RecordParts == <<"x", "y", "row">>

(* A variant of the lock that does not wait for the holder.                *)
Mutex_lock_free(mutex) == TRUE

(* Mutex::lock returns when nobody holds the mutex.                        *)
Mutex_lock(mutex) == mutex = None

SinkIdle ==
    /\ sink_items = <<>>
    /\ sink_workers = <<>>
    /\ sink_mutex = None
    /\ sink_to = <<>>
    /\ sink_full = FALSE
    /\ sink_progress = 0
    /\ sink_result = None

SinkInit ==
    /\ \E num_jps \in 1 .. SinkItems : sink_items = [i \in 1 .. num_jps |-> "waiting"]
    /\ sink_workers = [w \in 1 .. SinkWorkers |-> None]
    /\ sink_mutex = None
    /\ sink_to = <<>>
    /\ sink_full = FALSE
    /\ sink_progress = 0
    /\ sink_result = None

(* A worker takes a jump point and computes its row.                       *)
SinkTake(w, i) ==
    /\ sink_result = None
    /\ ~sink_full
    /\ sink_workers[w] = None
    /\ sink_items[i] = "waiting"
    /\ sink_items' = [sink_items EXCEPT ![i] = "running"]
    /\ sink_workers' = [sink_workers EXCEPT ![w] = Some([item |-> i, part |-> 0])]
    /\ UNCHANGED <<sink_mutex, sink_to, sink_full, sink_progress, sink_result>>

(* The worker locks progress and counts the jump point.                    *)
SinkLock(w) ==
    /\ sink_result = None
    /\ sink_workers[w] # None
    /\ Unwrap(sink_workers[w]).part = 0
    /\ Mutex_lock(sink_mutex)
    /\ sink_mutex' = Some(w)
    /\ sink_progress' = sink_progress + 1
    /\ sink_workers' = [sink_workers EXCEPT ![w] = Some([Unwrap(@) EXCEPT !.part = 1])]
    /\ UNCHANGED <<sink_items, sink_to, sink_full, sink_result>>

(* One write_all of the closure: x, y or the row.  A write that fails ends *)
(* the closure with the error; the last write ends it with Ok.  The guard  *)
(* is dropped as the closure of the worker returns.                        *)
SinkWrite(w, ok) ==
    /\ sink_result = None
    /\ sink_workers[w] # None
    /\ Unwrap(sink_workers[w]).part \in DOMAIN RecordParts
    /\ \E job \in {Unwrap(sink_workers[w])} :
          /\ sink_to' = IF ok THEN Append(sink_to, <<job.item, RecordParts[job.part]>>)
                        ELSE sink_to
          /\ IF ok /\ job.part < Len(RecordParts)
             THEN /\ sink_workers' = [sink_workers EXCEPT
                                         ![w] = Some([job EXCEPT !.part = job.part + 1])]
                  /\ UNCHANGED <<sink_items, sink_mutex, sink_full>>
             ELSE /\ sink_workers' = [sink_workers EXCEPT ![w] = None]
                  /\ sink_items' = [sink_items EXCEPT ![job.item] =
                                       IF ok THEN "written" ELSE "failed"]
                  /\ sink_full' = (sink_full \/ ~ok)
                  /\ sink_mutex' = None
    /\ UNCHANGED <<sink_progress, sink_result>>

(* try_for_each_init returns, and compute_to_file with it.                 *)
SinkReturn ==
    /\ sink_result = None
    /\ WorkersDone(sink_workers)
    /\ sink_full \/ \A i \in DOMAIN sink_items : sink_items[i] # "waiting"
    /\ sink_result' = Some(\A i \in DOMAIN sink_items : sink_items[i] # "failed")
    /\ UNCHANGED <<sink_items, sink_workers, sink_mutex, sink_to, sink_full, sink_progress>>

(* The places of the writer that hold the part of the jump point.          *)
WrittenAt(i, part) == {k \in DOMAIN sink_to : sink_to[k] = <<i, part>>}

(* C24: the bytes written for one jump point are never interleaved with    *)
(* the bytes written for another: each x starts a record and is the only x *)
(* of its jump point, each y follows the x of its jump point at once, each *)
(* row the y; and when compute_to_file has returned Ok, the writer holds   *)
(* one whole record for each jump point and nothing else.                  *)
C24_WritesSerializedOneRecordEach ==
    /\ \A k \in DOMAIN sink_to :
          /\ sink_to[k][2] = "x" => WrittenAt(sink_to[k][1], "x") = {k}
          /\ sink_to[k][2] = "y" => k > 1 /\ sink_to[k - 1] = <<sink_to[k][1], "x">>
          /\ sink_to[k][2] = "row" => k > 1 /\ sink_to[k - 1] = <<sink_to[k][1], "y">>
    /\ (sink_result = Some(TRUE))
           => /\ Len(sink_to) = Len(RecordParts) * Len(sink_items)
              /\ \A i \in DOMAIN sink_items : \A p \in DOMAIN RecordParts :
                    Cardinality(WrittenAt(i, RecordParts[p])) = 1

(* Three jump points were written by two workers and the call returned Ok; *)
(* the record of the third jump point is the first in the writer, that of  *)
(* the first the last.                                                     *)
C24_Witness ==
    /\ sink_result = Some(TRUE)
    /\ Len(sink_items) = SinkItems
    /\ sink_to[1] = <<3, "x">>
    /\ sink_to[7] = <<1, "x">>
    /\ sink_progress = SinkItems

(***************************************************************************)
(* The first-move component: FirstMoveSearcher::search on a small graph.   *)
(* The expander is a set of edges with positive costs; the edges out of    *)
(* the source carry the edge ids 0 .. MaxEdgeId, the edge ids of the other *)
(* states play no part.  The open list is the bucket queue the callers     *)
(* pass, with a bucket width no larger than the smallest edge cost: next   *)
(* returns a node of the first bucket that is not empty, whichever was     *)
(* pushed last.  A first-move word is the set of its 1 bits.               *)
(***************************************************************************)
FmNodes == 0 .. 3
FmSource == 0
MaxEdgeId == 1
FmStartCosts == {2, 4, 5}
FmCosts == {2, 3}
FmBucketWidth == 2
FmPairs == {<<1, 2>>, <<2, 1>>, <<2, 3>>, <<1, 3>>, <<1, 0>>}

VARIABLES fm_graph, fm_nodes, fm_open, fm_found, fm_started

FmVars == <<fm_graph, fm_nodes, fm_open, fm_found, fm_started>>

(* Expander::expand: the edges out of the node, in the order of their ids. *)
expand(graph, node) == [k \in 1 .. Cardinality({e \in graph : e.from = node}) |-> CHOOSE e \in graph : e.from = node /\ Cardinality({f \in graph : f.from = node /\ f.id < e.id}) = k - 1]

(* OpenList::next of the bucket queue: the nodes it may return.            *)
OpenList_next(nodes, open) == {n \in open : \A m \in open : nodes[n].g \div FmBucketWidth <= nodes[m].g \div FmBucketWidth}

(* The expansion of the start node: every edge sets the successor's g and  *)
(* first move and pushes it.                                               *)
RECURSIVE search_start(_, _, _, _)
search_start(nodes, open, edges, k) ==
    IF k > Len(edges) THEN [nodes |-> nodes, open |-> open]
    ELSE search_start([nodes EXCEPT ![edges[k].to] = [g |-> edges[k].cost, first_move |-> {edges[k].id}]], open \cup {edges[k].to}, edges, k + 1)

(* A variant of the relaxation whose tie branch overwrites the set.        *)
RECURSIVE search_relax_overwrite(_, _, _, _, _, _)
search_relax_overwrite(nodes, open, edges, k, node_g, node_first_move) ==
    IF k > Len(edges) THEN [nodes |-> nodes, open |-> open]
    ELSE IF edges[k].cost + node_g <= nodes[edges[k].to].g
    THEN search_relax_overwrite([nodes EXCEPT ![edges[k].to] = [g |-> edges[k].cost + node_g, first_move |-> node_first_move]], open \cup {edges[k].to}, edges, k + 1, node_g, node_first_move)
    ELSE search_relax_overwrite(nodes, open, edges, k + 1, node_g, node_first_move)

(* The relaxation of the edges of a node that was popped.                  *)
RECURSIVE search_relax(_, _, _, _, _, _)
search_relax(nodes, open, edges, k, node_g, node_first_move) ==
    IF k > Len(edges) THEN [nodes |-> nodes, open |-> open]
    ELSE IF edges[k].cost + node_g < nodes[edges[k].to].g
    THEN search_relax([nodes EXCEPT ![edges[k].to] = [g |-> edges[k].cost + node_g, first_move |-> node_first_move]], open \cup {edges[k].to}, edges, k + 1, node_g, node_first_move)
    ELSE IF edges[k].cost + node_g = nodes[edges[k].to].g
    THEN search_relax([nodes EXCEPT ![edges[k].to].first_move = @ \cup node_first_move], open, edges, k + 1, node_g, node_first_move)
    ELSE search_relax(nodes, open, edges, k + 1, node_g, node_first_move)

FmIdle ==
    /\ fm_graph = {}
    /\ fm_nodes = <<>>
    /\ fm_open = {}
    /\ fm_found = <<>>
    /\ fm_started = FALSE

(* Any graph on the nodes: each edge id of the source is unused or leads   *)
(* to some node, the source and the target of another edge included.       *)
FmInit ==
    /\ \E out \in [0 .. MaxEdgeId -> {None} \cup {Some(<<t, c>>) : t \in FmNodes, c \in FmStartCosts}] :
       \E rest \in [FmPairs -> {0} \cup FmCosts] :
          fm_graph = {[from |-> FmSource, id |-> i, to |-> Unwrap(out[i])[1], cost |-> Unwrap(out[i])[2]] : i \in {j \in 0 .. MaxEdgeId : out[j] # None}}
                     \cup {[from |-> p[1], id |-> p[2], to |-> p[2], cost |-> rest[p]] : p \in {q \in FmPairs : rest[q] # 0}}
    /\ fm_nodes = [n \in FmNodes |-> [g |-> INFINITY, first_move |-> {}]]
    /\ fm_open = {}
    /\ fm_found = <<>>
    /\ fm_started = FALSE

(* search up to the loop: start.g = 0 and the expansion of the start node. *)
FmSearchStart ==
    /\ ~fm_started
    /\ fm_started' = TRUE
    /\ \E r \in {search_start([fm_nodes EXCEPT ![FmSource].g = 0], {}, expand(fm_graph, FmSource), 1)} :
          /\ fm_nodes' = r.nodes
          /\ fm_open' = r.open
    /\ UNCHANGED <<fm_graph, fm_found>>

(* One turn of the loop: the node is popped, passed to the callback with   *)
(* its first-move word, and expanded.                                      *)
FmSearchPop(node) ==
    /\ fm_started
    /\ node \in OpenList_next(fm_nodes, fm_open)
    /\ fm_found' = Append(fm_found, <<node, fm_nodes[node].first_move>>)
    /\ \E r \in {search_relax(fm_nodes, fm_open \ {node}, expand(fm_graph, node), 1, fm_nodes[node].g, fm_nodes[node].first_move)} :
          /\ fm_nodes' = r.nodes
          /\ fm_open' = r.open
    /\ UNCHANGED <<fm_graph, fm_started>>

(* The cost of the cheapest path to t from each node along at most k edges.*)
RECURSIVE CostTo(_, _, _)
CostTo(graph, t, k) ==
    IF k = 0 THEN [u \in FmNodes |-> IF u = t THEN 0 ELSE INFINITY]
    ELSE Only({[u \in FmNodes |-> Min({d[u]} \cup {e.cost + d[e.to] : e \in {f \in graph : f.from = u}})] : d \in {CostTo(graph, t, k - 1)}})

(* The ids of the source's edges that begin a minimum-cost path to t.      *)
OptimalFirstMoves(graph, t) ==
    IF t = FmSource THEN {}
    ELSE Only({{e.id : e \in {f \in graph : f.from = FmSource /\ f.cost + d[f.to] = d[FmSource] /\ d[FmSource] < INFINITY}} : d \in {CostTo(graph, t, Cardinality(FmNodes))}})

(* The edges out of the source lead to different states, none the source.  *)
DistinctStartSuccessors(graph) ==
    \A e \in graph : e.from = FmSource =>
        /\ e.to # FmSource
        /\ \A f \in graph : (f.from = FmSource /\ f.to = e.to) => f = e

GridMapper_found(mapper, node) == [grid |-> [mapper.grid EXCEPT ![node] = Len(mapper.array)], array |-> Append(mapper.array, node)]

(* dfs_traversal after the expansion of its start: the edge popped is the  *)
(* last of the list on top of the stack.                                   *)
RECURSIVE dfs_traversal(_, _, _)
dfs_traversal(grid, stack, mapper) ==
    IF stack = <<>> THEN mapper
    ELSE IF Last(stack) = <<>> THEN dfs_traversal(grid, Front(stack), mapper)
    ELSE LET node == Last(Last(stack)).successor
             lower == [stack EXCEPT ![Len(stack)] = Front(@)]
         IN IF mapper.grid[node] = USIZE_MAX
            THEN dfs_traversal(grid, Append(lower, EightConnectedExpander_expand(grid, node)), GridMapper_found(mapper, node))
            ELSE dfs_traversal(grid, lower, mapper)

(* The loop of dfs_preorder over the cells, row by row.                    *)
RECURSIVE dfs_preorder_loop(_, _, _)
dfs_preorder_loop(grid, cells, mapper) ==
    IF cells = <<>> THEN mapper
    ELSE IF ~BitGrid_get(grid, Head(cells)[1], Head(cells)[2]).ret \/ mapper.grid[Head(cells)] # USIZE_MAX
    THEN dfs_preorder_loop(grid, Tail(cells), mapper)
    ELSE dfs_preorder_loop(grid, Tail(cells), dfs_traversal(grid, <<EightConnectedExpander_expand(grid, Head(cells))>>, GridMapper_found(mapper, Head(cells))))

GridMapper_dfs_preorder(grid) ==
    dfs_preorder_loop(grid, RowMajor(grid.width, grid.height, 0), [grid |-> [c \in Cells(grid.width, grid.height) |-> USIZE_MAX], array |-> <<>>])

(* The orthogonal directions the cell is a jump point in.                  *)
OrthogonalJumpPoint(nb) ==
    {dir \in {North, South, East, West} : backwards(dir) \in nb /\ ~(canonical_successors(nb, Some(dir)) \subseteq {dir})}

(* collect_diagonal_jps: the jump points along the diagonal ray.           *)
RECURSIVE collect_diagonal_jps(_, _, _, _, _)
collect_diagonal_jps(jps_of, db, x, y, dir) ==
    IF JumpDatabase_get(db, x, y, dir)[2]
    THEN LET dist == JumpDatabase_get(db, x, y, dir)[1]
             nx == x + vector(dir)[1] * dist
             ny == y + vector(dir)[2] * dist
         IN collect_diagonal_jps([jps_of EXCEPT ![<<nx, ny>>] = @ \cup {dir}], db, nx, ny, dir)
    ELSE jps_of

(* The four calls of collect_diagonal_jps, in the order of the code.       *)
RECURSIVE collect_diagonals(_, _, _, _, _, _)
collect_diagonals(jps_of, db, x, y, jp_successors, dirs) ==
    IF dirs = <<>> THEN jps_of
    ELSE collect_diagonals(IF Head(dirs) \in jp_successors THEN collect_diagonal_jps(jps_of, db, x, y, Head(dirs)) ELSE jps_of, db, x, y, jp_successors, Tail(dirs))

(* The loop of independent_jump_points over the cells; jps_of gives each   *)
(* cell its entry of the map, the empty set for a cell that has none.      *)
RECURSIVE independent_jump_points_loop(_, _, _, _)
independent_jump_points_loop(grid, db, cells, jps_of) ==
    IF cells = <<>> THEN jps_of
    ELSE LET x == Head(cells)[1]
             y == Head(cells)[2]
             nb == get_neighborhood(grid, x, y)
             jps == OrthogonalJumpPoint(nb)
             jp_successors == UNION {canonical_successors(nb, Some(dir)) : dir \in jps}
         IN IF ~BitGrid_get(grid, x, y).ret \/ jps = {}
            THEN independent_jump_points_loop(grid, db, Tail(cells), jps_of)
            ELSE independent_jump_points_loop(grid, db, Tail(cells), collect_diagonals([jps_of EXCEPT ![<<x, y>>] = @ \cup jps], db, x, y, jp_successors, <<NorthWest, SouthWest, SouthEast, NorthEast>>))

independent_jump_points(grid, db) ==
    independent_jump_points_loop(grid, db, RowMajor(grid.width, grid.height, 0), [c \in Cells(grid.width, grid.height) |-> {}])

(* CanonicalGridExpander::expand_unchecked: an edge for each direction of  *)
(* the set, in the order of the discriminants.                             *)
RECURSIVE expand_unchecked(_, _, _)
expand_unchecked(state, successors, dir) ==
    IF dir >= Cardinality(Direction) THEN <<>>
    ELSE (IF dir \in successors
          THEN <<GridEdge(<<state[1] + vector(dir)[1], state[2] + vector(dir)[2]>>, IF orthogonal(dir) THEN ONE ELSE SAFE_SQRT_2, dir)>>
          ELSE <<>>) \o expand_unchecked(state, successors, dir + 1)

(* 0.999 in units of 2^-23, rounded down.                                  *)
FM_BUCKET_WIDTH == 8380219

(* Canonical successors of the cell when it is entered in the direction.   *)
EnteredSuccessors(grid, state, dir) == canonical_successors(get_neighborhood(grid, state[1], state[2]), Some(dir))

(* FirstMoveComputer::compute, the loop over the edges of the start node.  *)
RECURSIVE compute_start(_, _, _, _)
compute_start(grid, open, edges, k) ==
    IF k > Len(edges) \/ open.panicked THEN open
    ELSE LET node == edges[k].successor
             q == [open.q EXCEPT !.nodes[node].g = edges[k].cost,
                                 !.nodes[node].first_move = {edges[k].direction},
                                 !.nodes[node].successors = EnteredSuccessors(grid, node, edges[k].direction)]
         IN compute_start(grid, BucketQueue_relaxed(q, node, TRUE), edges, k + 1)

(* FirstMoveComputer::compute, the loop over the edges of a popped node.   *)
RECURSIVE compute_relax(_, _, _, _, _, _)
compute_relax(grid, open, edges, k, node_g, node_first_move) ==
    IF k > Len(edges) \/ open.panicked THEN open
    ELSE LET successor == edges[k].successor
             new_g == edges[k].cost + node_g
         IN IF new_g < open.q.nodes[successor].g
            THEN compute_relax(grid, BucketQueue_relaxed([open.q EXCEPT !.nodes[successor].g = new_g,
                                                                        !.nodes[successor].first_move = node_first_move,
                                                                        !.nodes[successor].successors = EnteredSuccessors(grid, successor, edges[k].direction)],
                                                         successor, TRUE),
                               edges, k + 1, node_g, node_first_move)
            ELSE IF new_g = open.q.nodes[successor].g
            THEN compute_relax(grid, [open EXCEPT !.q.nodes[successor].first_move = @ \cup node_first_move,
                                                  !.q.nodes[successor].successors = @ \cup EnteredSuccessors(grid, successor, edges[k].direction)],
                               edges, k + 1, node_g, node_first_move)
            ELSE compute_relax(grid, open, edges, k + 1, node_g, node_first_move)

(* FirstMoveComputer::compute, the loop over the open list: the calls of   *)
(* fm_cb so far are called, as <<position, first moves>>.                  *)
RECURSIVE compute_loop(_, _, _)
compute_loop(grid, open, called) ==
    IF open.panicked THEN [panicked |-> TRUE, called |-> called]
    ELSE LET r == BucketQueue_next(open.q)
         IN IF r.ret = None THEN [panicked |-> FALSE, called |-> called]
            ELSE LET node == Unwrap(r.ret)
                     fields == r.q.nodes[node]
                 IN compute_loop(grid,
                                 compute_relax(grid, [q |-> r.q, panicked |-> FALSE], expand_unchecked(node, fields.successors, 0), 1, fields.g, fields.first_move),
                                 Append(called, <<node, fields.first_move>>))

(* FirstMoveComputer::compute: the nodes of the pool after reset, the      *)
(* start node, its expansion and the loop.                                 *)
FirstMoveComputer_compute(grid, source) ==
    LET nodes == [c \in Cells(grid.width, grid.height) |-> [g |-> IF c = source THEN 0 ELSE INFINITY, first_move |-> Direction, successors |-> Direction, bucket_pos |-> <<U32_MAX, U32_MAX>>]]
        open == [q |-> [bucket_number |-> 0, bucket_width |-> FM_BUCKET_WIDTH, queue |-> <<>>, nodes |-> nodes], panicked |-> FALSE]
        edges == expand_unchecked(source, canonical_successors(get_neighborhood(grid, source[1], source[2]), None), 0)
    IN compute_loop(grid, compute_start(grid, open, edges, 1), <<>>)

(* The closure of compute_impl: the first moves by id, the tie-break table *)
(* applied to each, and the row.  A cell that fm_cb was not called for     *)
(* keeps EnumSet::all().                                                   *)
RECURSIVE first_moves_by_id(_, _, _)
first_moves_by_id(mapper, fms, called) ==
    IF called = <<>> THEN fms
    ELSE first_moves_by_id(mapper, [fms EXCEPT ![mapper.grid[Head(called)[1]] + 1] = Head(called)[2]], Tail(called))

compute_impl_row(grid, mapper, source, jps) ==
    LET computed == FirstMoveComputer_compute(grid, source)
        fms == first_moves_by_id(mapper, [i \in 1 .. Len(mapper.array) |-> Direction], computed.called)
        tiebreak_table == compute_tiebreak_table(get_neighborhood(grid, source[1], source[2]), jps)
    IN [panicked |-> computed.panicked \/ tiebreak_table.panicked,
        row |-> compress([i \in 1 .. Len(mapper.array) |-> tiebreak_table.table[FromBits(fms[i])]])]

(* PartialCellCpd::compute: the mapper and a row for each jump point.      *)
PartialCellCpd_compute(grid, db) ==
    LET mapper == GridMapper_dfs_preorder(grid)
        jps_of == independent_jump_points(grid, db)
        rows == [c \in {d \in Cells(grid.width, grid.height) : jps_of[d] # {}} |-> compute_impl_row(grid, mapper, c, jps_of[c])]
    IN [panicked |-> \E c \in DOMAIN rows : rows[c].panicked,
        mapper |-> mapper.grid,
        jump_points |-> jps_of,
        partial_cpd |-> [c \in Cells(grid.width, grid.height) |-> IF c \in DOMAIN rows THEN Some(rows[c].row) ELSE None]]

(***************************************************************************)
(* The oracle component: PartialCellCpd::compute builds the oracle of a    *)
(* map, and ToppingPlus::get_path is called with it for a start and a      *)
(* target of the map.                                                      *)
(***************************************************************************)
OracleWidth == 3
OracleHeight == 3

VARIABLES oracle, oracle_path

OracleVars == <<oracle, oracle_path>>

OracleIdle ==
    /\ oracle = <<>>
    /\ oracle_path = None

OracleInit ==
    /\ \E trav \in SUBSET Cells(OracleWidth, OracleHeight) :
       \E grid \in {GridOf(OracleWidth, OracleHeight, trav)} :
       \E db \in {JumpDatabase_new(grid)} :
       \E cpd \in {PartialCellCpd_compute(grid, db)} :
       \E from \in trav : \E goal \in trav :
          oracle = [map |-> grid, jump_db |-> db, cpd |-> cpd, start |-> from, target |-> goal]
    /\ oracle_path = None

OracleGetPath ==
    /\ oracle_path = None
    /\ oracle_path' = Some(ToppingPlus_get_path(oracle.map, oracle.jump_db, oracle.cpd, oracle.start, oracle.target))
    /\ UNCHANGED oracle

(* The sum of the octile distances between the states of the path.        *)
RECURSIVE PathCost(_)
PathCost(path) ==
    IF Len(path) < 2 THEN 0
    ELSE octile_distance(path[1], path[2]) + PathCost(Tail(path))

(* C26: for the oracle PartialCellCpd::compute builds for the map and a    *)
(* start and a target in the same connected component, get_path returns:   *)
(* the chain of forward links from the start node ends and does not come   *)
(* back to a node; the path begins at the start and ends at the target;    *)
(* the cost is the minimum cost of an 8-connected path from the start to   *)
(* the target, and it is the cost of the path.                             *)
C26_PathIsOptimal ==
    (/\ oracle_path # None
     /\ ~oracle.cpd.panicked
     /\ EightConnectedCosts(oracle.map, oracle.start)[oracle.target] < INFINITY)
        => /\ Unwrap(oracle_path).outcome = "returned"
           /\ Head(Unwrap(oracle_path).path) = oracle.start
           /\ Last(Unwrap(oracle_path).path) = oracle.target
           /\ Unwrap(oracle_path).cost = EightConnectedCosts(oracle.map, oracle.start)[oracle.target]
           /\ Unwrap(oracle_path).cost = PathCost(Unwrap(oracle_path).path)

(* A path of four states or more was returned for a start with two start   *)
(* successors or more, one of which the canonicality check rejected.       *)
C26_Witness ==
    /\ oracle_path # None
    /\ ~oracle.cpd.panicked
    /\ oracle.start # oracle.target
    /\ Unwrap(oracle_path).outcome = "returned"
    /\ Unwrap(oracle_path).cost < INFINITY
    /\ Len(Unwrap(oracle_path).path) >= 4
    /\ Unwrap(oracle_path).starts >= 2
    /\ Unwrap(oracle_path).rejected >= 1

(***************************************************************************)
(* Specifications: one for each component.  The variables of the other     *)
(* components stay as they are when they are not in use.                   *)
(***************************************************************************)
vars == <<SearchVars, scan, RowVars, TiebreakVars, NodeVars, PoolVars,
         QueueVars, BucketVars, GridVars, CanonicalVars, LayoutVars,
         BuildVars, ToppingVars, IdSpaceVars, AuxiliaryVars, BbVars,
         BoundedVars, SinkVars, FmVars, OracleVars>>

SearchRest ==
    <<scan, RowVars, TiebreakVars, NodeVars, PoolVars, QueueVars, BucketVars,
      GridVars, CanonicalVars, LayoutVars, BuildVars, ToppingVars,
      IdSpaceVars, AuxiliaryVars, BbVars, BoundedVars, SinkVars, FmVars,
      OracleVars>>

SearchStart ==
    /\ SearchInit
    /\ scan = NoScan
    /\ RowIdle
    /\ TiebreakIdle
    /\ NodeIdle
    /\ PoolIdle
    /\ QueueIdle
    /\ BucketIdle
    /\ GridIdle
    /\ CanonicalIdle
    /\ LayoutIdle
    /\ BuildIdle
    /\ ToppingIdle
    /\ IdSpaceIdle
    /\ AuxiliaryIdle
    /\ BbIdle
    /\ BoundedIdle
    /\ SinkIdle
    /\ FmIdle
    /\ OracleIdle

SearchNext ==
    \/ Search_begin /\ UNCHANGED SearchRest
    \/ Search_expand /\ UNCHANGED SearchRest
    \/ Search_found /\ UNCHANGED SearchRest
    \/ Search_failed /\ UNCHANGED SearchRest
    \/ NextExpander /\ UNCHANGED SearchRest

SpecSearch == SearchStart /\ [][SearchNext]_vars

JumpRest ==
    <<RowVars, TiebreakVars, NodeVars, PoolVars, QueueVars, BucketVars,
      GridVars, CanonicalVars, LayoutVars, BuildVars, ToppingVars,
      IdSpaceVars, AuxiliaryVars, BbVars, BoundedVars, SinkVars, FmVars,
      OracleVars>>

JumpStart ==
    /\ JumpInit
    /\ RowIdle
    /\ TiebreakIdle
    /\ NodeIdle
    /\ PoolIdle
    /\ QueueIdle
    /\ BucketIdle
    /\ GridIdle
    /\ CanonicalIdle
    /\ LayoutIdle
    /\ BuildIdle
    /\ ToppingIdle
    /\ IdSpaceIdle
    /\ AuxiliaryIdle
    /\ BbIdle
    /\ BoundedIdle
    /\ SinkIdle
    /\ FmIdle
    /\ OracleIdle

JumpNext ==
    \/ Jump /\ UNCHANGED JumpRest

SpecJump == JumpStart /\ [][JumpNext]_vars

RowRest ==
    <<SearchVars, scan, TiebreakVars, NodeVars, PoolVars, QueueVars,
      BucketVars, GridVars, CanonicalVars, LayoutVars, BuildVars,
      ToppingVars, IdSpaceVars, AuxiliaryVars, BbVars, BoundedVars, SinkVars,
      FmVars, OracleVars>>

RowStart ==
    /\ RowInit
    /\ SearchIdle
    /\ scan = NoScan
    /\ TiebreakIdle
    /\ NodeIdle
    /\ PoolIdle
    /\ QueueIdle
    /\ BucketIdle
    /\ GridIdle
    /\ CanonicalIdle
    /\ LayoutIdle
    /\ BuildIdle
    /\ ToppingIdle
    /\ IdSpaceIdle
    /\ AuxiliaryIdle
    /\ BbIdle
    /\ BoundedIdle
    /\ SinkIdle
    /\ FmIdle
    /\ OracleIdle

RowNext ==
    \/ Compress /\ UNCHANGED RowRest
    \/ \E id \in 0 .. (Len(first_moves) - 1) : Lookup(id)
          /\ UNCHANGED RowRest
    \/ Save /\ UNCHANGED RowRest

SpecRow == RowStart /\ [][RowNext]_vars

TiebreakRest ==
    <<SearchVars, scan, RowVars, NodeVars, PoolVars, QueueVars, BucketVars,
      GridVars, CanonicalVars, LayoutVars, BuildVars, ToppingVars,
      IdSpaceVars, AuxiliaryVars, BbVars, BoundedVars, SinkVars, FmVars,
      OracleVars>>

TiebreakStart ==
    /\ TiebreakInit
    /\ SearchIdle
    /\ scan = NoScan
    /\ RowIdle
    /\ NodeIdle
    /\ PoolIdle
    /\ QueueIdle
    /\ BucketIdle
    /\ GridIdle
    /\ CanonicalIdle
    /\ LayoutIdle
    /\ BuildIdle
    /\ ToppingIdle
    /\ IdSpaceIdle
    /\ AuxiliaryIdle
    /\ BbIdle
    /\ BoundedIdle
    /\ SinkIdle
    /\ FmIdle
    /\ OracleIdle

TiebreakNext ==
    \/ ComputeTiebreakTable /\ UNCHANGED TiebreakRest

SpecTiebreak == TiebreakStart /\ [][TiebreakNext]_vars

NodeRest ==
    <<SearchVars, scan, RowVars, TiebreakVars, PoolVars, QueueVars,
      BucketVars, GridVars, CanonicalVars, LayoutVars, BuildVars,
      ToppingVars, IdSpaceVars, AuxiliaryVars, BbVars, BoundedVars, SinkVars,
      FmVars, OracleVars>>

NodeStart ==
    /\ NodeInit
    /\ SearchIdle
    /\ scan = NoScan
    /\ RowIdle
    /\ TiebreakIdle
    /\ PoolIdle
    /\ QueueIdle
    /\ BucketIdle
    /\ GridIdle
    /\ CanonicalIdle
    /\ LayoutIdle
    /\ BuildIdle
    /\ ToppingIdle
    /\ IdSpaceIdle
    /\ AuxiliaryIdle
    /\ BbIdle
    /\ BoundedIdle
    /\ SinkIdle
    /\ FmIdle
    /\ OracleIdle

NodeNext ==
    \/ \E T \in FieldTypes : \E fill \in 0 .. MaxFill : AddField(T, fill)
          /\ UNCHANGED NodeRest
    \/ Build /\ UNCHANGED NodeRest
    \/ NewNode /\ UNCHANGED NodeRest
    \/ \E n \in 1 .. Len(arena) : \E f \in 1 .. Len(members) :
          \E fill \in 0 .. MaxFill : Set(n, f, fill)
          /\ UNCHANGED NodeRest
    \/ \E n \in 1 .. Len(arena) : \E f \in 1 .. Len(members) : Get(n, f)
          /\ UNCHANGED NodeRest

SpecNode == NodeStart /\ [][NodeNext]_vars

PoolRest ==
    <<SearchVars, scan, RowVars, TiebreakVars, NodeVars, QueueVars,
      BucketVars, GridVars, CanonicalVars, LayoutVars, BuildVars,
      ToppingVars, IdSpaceVars, AuxiliaryVars, BbVars, BoundedVars, SinkVars,
      FmVars, OracleVars>>

PoolStart ==
    /\ PoolInit
    /\ SearchIdle
    /\ scan = NoScan
    /\ RowIdle
    /\ TiebreakIdle
    /\ NodeIdle
    /\ QueueIdle
    /\ BucketIdle
    /\ GridIdle
    /\ CanonicalIdle
    /\ LayoutIdle
    /\ BuildIdle
    /\ ToppingIdle
    /\ IdSpaceIdle
    /\ AuxiliaryIdle
    /\ BbIdle
    /\ BoundedIdle
    /\ SinkIdle
    /\ FmIdle
    /\ OracleIdle

PoolNext ==
    \/ \E state \in PoolStates : PoolGenerate(state)
          /\ UNCHANGED PoolRest
    \/ PoolReset /\ UNCHANGED PoolRest
    \/ \E node \in 1 .. Cardinality(PoolStates) : PoolTouch(node)
          /\ UNCHANGED PoolRest

SpecPool == PoolStart /\ [][PoolNext]_vars

QueueRest ==
    <<SearchVars, scan, RowVars, TiebreakVars, NodeVars, PoolVars,
      BucketVars, GridVars, CanonicalVars, LayoutVars, BuildVars,
      ToppingVars, IdSpaceVars, AuxiliaryVars, BbVars, BoundedVars, SinkVars,
      FmVars, OracleVars>>

QueueStart ==
    /\ QueueInit
    /\ SearchIdle
    /\ scan = NoScan
    /\ RowIdle
    /\ TiebreakIdle
    /\ NodeIdle
    /\ PoolIdle
    /\ BucketIdle
    /\ GridIdle
    /\ CanonicalIdle
    /\ LayoutIdle
    /\ BuildIdle
    /\ ToppingIdle
    /\ IdSpaceIdle
    /\ AuxiliaryIdle
    /\ BbIdle
    /\ BoundedIdle
    /\ SinkIdle
    /\ FmIdle
    /\ OracleIdle

QueueStep ==
    \/ \E n \in QueueNodes : \E f \in 0 .. MaxF : \E h \in 0 .. MaxH :
          QueueRelaxed(n, f, h)
          /\ UNCHANGED QueueRest
    \/ \E n \in QueueNodes : QueueRelaxedAgain(n)
          /\ UNCHANGED QueueRest
    \/ QueueNext /\ UNCHANGED QueueRest

SpecQueue == QueueStart /\ [][QueueStep]_vars

BucketRest ==
    <<SearchVars, scan, RowVars, TiebreakVars, NodeVars, PoolVars, QueueVars,
      GridVars, CanonicalVars, LayoutVars, BuildVars, ToppingVars,
      IdSpaceVars, AuxiliaryVars, BbVars, BoundedVars, SinkVars, FmVars,
      OracleVars>>

BucketStart ==
    /\ BucketInit
    /\ SearchIdle
    /\ scan = NoScan
    /\ RowIdle
    /\ TiebreakIdle
    /\ NodeIdle
    /\ PoolIdle
    /\ QueueIdle
    /\ GridIdle
    /\ CanonicalIdle
    /\ LayoutIdle
    /\ BuildIdle
    /\ ToppingIdle
    /\ IdSpaceIdle
    /\ AuxiliaryIdle
    /\ BbIdle
    /\ BoundedIdle
    /\ SinkIdle
    /\ FmIdle
    /\ OracleIdle

BucketStep ==
    \/ \E n \in BucketNodes : \E g \in 0 .. MaxG : BucketRelaxed(n, g)
          /\ UNCHANGED BucketRest
    \/ BucketNext /\ UNCHANGED BucketRest

SpecBucket == BucketStart /\ [][BucketStep]_vars

GridRest ==
    <<SearchVars, scan, RowVars, TiebreakVars, NodeVars, PoolVars, QueueVars,
      BucketVars, CanonicalVars, LayoutVars, BuildVars, ToppingVars,
      IdSpaceVars, AuxiliaryVars, BbVars, BoundedVars, SinkVars, FmVars,
      OracleVars>>

GridStart ==
    /\ GridInit
    /\ SearchIdle
    /\ scan = NoScan
    /\ RowIdle
    /\ TiebreakIdle
    /\ NodeIdle
    /\ PoolIdle
    /\ QueueIdle
    /\ BucketIdle
    /\ CanonicalIdle
    /\ LayoutIdle
    /\ BuildIdle
    /\ ToppingIdle
    /\ IdSpaceIdle
    /\ AuxiliaryIdle
    /\ BbIdle
    /\ BoundedIdle
    /\ SinkIdle
    /\ FmIdle
    /\ OracleIdle

GridNext ==
    \/ \E x \in Columns(bitgrid) : \E y \in Rows(bitgrid) : \E t \in BOOLEAN :
          GridSet(x, y, t)
          /\ UNCHANGED GridRest
    \/ \E x \in Columns(bitgrid) : \E y \in Rows(bitgrid) : GridGetRowRight(x, y)
          /\ UNCHANGED GridRest
    \/ \E x \in Columns(bitgrid) : \E y \in Rows(bitgrid) : \E DY \in -1 .. 1 :
          \E all_1s \in {0, bitgrid.width} : GridJumpRight(DY, x, y, all_1s)
          /\ UNCHANGED GridRest
    \/ \E x \in Columns(bitgrid) : \E y \in Rows(bitgrid) : \E DY \in -1 .. 1 :
          \E all_1s \in {0, bitgrid.width} : GridJumpLeft(DY, x, y, all_1s)
          /\ UNCHANGED GridRest

SpecGrid == GridStart /\ [][GridNext]_vars

CanonicalRest ==
    <<SearchVars, scan, RowVars, TiebreakVars, NodeVars, PoolVars, QueueVars,
      BucketVars, GridVars, LayoutVars, BuildVars, ToppingVars, IdSpaceVars,
      AuxiliaryVars, BbVars, BoundedVars, SinkVars, FmVars, OracleVars>>

CanonicalStart ==
    /\ CanonicalInit
    /\ SearchIdle
    /\ scan = NoScan
    /\ RowIdle
    /\ TiebreakIdle
    /\ NodeIdle
    /\ PoolIdle
    /\ QueueIdle
    /\ BucketIdle
    /\ GridIdle
    /\ LayoutIdle
    /\ BuildIdle
    /\ ToppingIdle
    /\ IdSpaceIdle
    /\ AuxiliaryIdle
    /\ BbIdle
    /\ BoundedIdle
    /\ SinkIdle
    /\ FmIdle
    /\ OracleIdle

CanonicalNext ==
    \/ \E going \in {None} \cup {Some(d) : d \in Direction} : CanonicalSuccessors(going)
          /\ UNCHANGED CanonicalRest

SpecCanonical == CanonicalStart /\ [][CanonicalNext]_vars

LayoutRest ==
    <<SearchVars, scan, RowVars, TiebreakVars, NodeVars, PoolVars, QueueVars,
      BucketVars, GridVars, CanonicalVars, BuildVars, ToppingVars,
      IdSpaceVars, AuxiliaryVars, BbVars, BoundedVars, SinkVars, FmVars,
      OracleVars>>

LayoutStart ==
    /\ LayoutInit
    /\ SearchIdle
    /\ scan = NoScan
    /\ RowIdle
    /\ TiebreakIdle
    /\ NodeIdle
    /\ PoolIdle
    /\ QueueIdle
    /\ BucketIdle
    /\ GridIdle
    /\ CanonicalIdle
    /\ BuildIdle
    /\ ToppingIdle
    /\ IdSpaceIdle
    /\ AuxiliaryIdle
    /\ BbIdle
    /\ BoundedIdle
    /\ SinkIdle
    /\ FmIdle
    /\ OracleIdle

LayoutNext ==
    \/ \E t \in Threads : LayoutIdFetch(t)
          /\ UNCHANGED LayoutRest
    \/ \E t \in Threads : LayoutNewBuilder(t)
          /\ UNCHANGED LayoutRest
    \/ \E b \in 1 .. Len(layouts) : LayoutAddField(b)
          /\ UNCHANGED LayoutRest
    \/ \E b \in 1 .. Len(layouts) : LayoutNewNode(b)
          /\ UNCHANGED LayoutRest
    \/ \E n \in 1 .. Len(layouts) : \E m \in 1 .. Len(layouts) : LayoutSet(n, m)
          /\ UNCHANGED LayoutRest
    \/ \E n \in 1 .. Len(layouts) : \E m \in 1 .. Len(layouts) : LayoutGet(n, m)
          /\ UNCHANGED LayoutRest

SpecLayout == LayoutStart /\ [][LayoutNext]_vars

BuildRest ==
    <<SearchVars, scan, RowVars, TiebreakVars, NodeVars, PoolVars, QueueVars,
      BucketVars, GridVars, CanonicalVars, LayoutVars, ToppingVars,
      IdSpaceVars, AuxiliaryVars, BbVars, BoundedVars, SinkVars, FmVars,
      OracleVars>>

BuildStart ==
    /\ BuildInit
    /\ SearchIdle
    /\ scan = NoScan
    /\ RowIdle
    /\ TiebreakIdle
    /\ NodeIdle
    /\ PoolIdle
    /\ QueueIdle
    /\ BucketIdle
    /\ GridIdle
    /\ CanonicalIdle
    /\ LayoutIdle
    /\ ToppingIdle
    /\ IdSpaceIdle
    /\ AuxiliaryIdle
    /\ BbIdle
    /\ BoundedIdle
    /\ SinkIdle
    /\ FmIdle
    /\ OracleIdle

BuildNext ==
    \/ \E w \in DOMAIN build_workers : \E i \in DOMAIN build_items : BuildTake(w, i)
          /\ UNCHANGED BuildRest
    \/ \E w \in DOMAIN build_workers : \E ok \in BOOLEAN : BuildReport(w, ok)
          /\ UNCHANGED BuildRest
    \/ BuildReturn /\ UNCHANGED BuildRest

SpecBuild == BuildStart /\ [][BuildNext]_vars

ToppingRest ==
    <<SearchVars, scan, RowVars, TiebreakVars, NodeVars, PoolVars, QueueVars,
      BucketVars, GridVars, CanonicalVars, LayoutVars, BuildVars,
      IdSpaceVars, AuxiliaryVars, BbVars, BoundedVars, SinkVars, FmVars,
      OracleVars>>

ToppingStart ==
    /\ ToppingInit
    /\ SearchIdle
    /\ scan = NoScan
    /\ RowIdle
    /\ TiebreakIdle
    /\ NodeIdle
    /\ PoolIdle
    /\ QueueIdle
    /\ BucketIdle
    /\ GridIdle
    /\ CanonicalIdle
    /\ LayoutIdle
    /\ BuildIdle
    /\ IdSpaceIdle
    /\ AuxiliaryIdle
    /\ BbIdle
    /\ BoundedIdle
    /\ SinkIdle
    /\ FmIdle
    /\ OracleIdle

ToppingNext ==
    \/ ToppingGetPath /\ UNCHANGED ToppingRest

SpecTopping == ToppingStart /\ [][ToppingNext]_vars

IdSpaceRest ==
    <<SearchVars, scan, RowVars, TiebreakVars, NodeVars, PoolVars, QueueVars,
      BucketVars, GridVars, CanonicalVars, LayoutVars, BuildVars,
      ToppingVars, AuxiliaryVars, BbVars, BoundedVars, SinkVars, FmVars,
      OracleVars>>

IdSpaceStart ==
    /\ IdSpaceInit
    /\ SearchIdle
    /\ scan = NoScan
    /\ RowIdle
    /\ TiebreakIdle
    /\ NodeIdle
    /\ PoolIdle
    /\ QueueIdle
    /\ BucketIdle
    /\ GridIdle
    /\ CanonicalIdle
    /\ LayoutIdle
    /\ BuildIdle
    /\ ToppingIdle
    /\ AuxiliaryIdle
    /\ BbIdle
    /\ BoundedIdle
    /\ SinkIdle
    /\ FmIdle
    /\ OracleIdle

IdSpaceNext ==
    \/ IdSpaceCompute /\ UNCHANGED IdSpaceRest
    \/ IdSpacePartialCell /\ UNCHANGED IdSpaceRest

SpecIdSpace == IdSpaceStart /\ [][IdSpaceNext]_vars

AuxiliaryRest ==
    <<SearchVars, scan, RowVars, TiebreakVars, NodeVars, PoolVars, QueueVars,
      BucketVars, GridVars, CanonicalVars, LayoutVars, BuildVars,
      ToppingVars, IdSpaceVars, BbVars, BoundedVars, SinkVars, FmVars,
      OracleVars>>

AuxiliaryStart ==
    /\ AuxiliaryInit
    /\ SearchIdle
    /\ scan = NoScan
    /\ RowIdle
    /\ TiebreakIdle
    /\ NodeIdle
    /\ PoolIdle
    /\ QueueIdle
    /\ BucketIdle
    /\ GridIdle
    /\ CanonicalIdle
    /\ LayoutIdle
    /\ BuildIdle
    /\ ToppingIdle
    /\ IdSpaceIdle
    /\ BbIdle
    /\ BoundedIdle
    /\ SinkIdle
    /\ FmIdle
    /\ OracleIdle

AuxiliaryNext ==
    \/ AuxiliaryNew /\ UNCHANGED AuxiliaryRest
    \/ \E x \in 0 .. MaxSide : \E y \in 0 .. MaxSide : AuxiliaryIndex(x, y)
          /\ UNCHANGED AuxiliaryRest

SpecAuxiliary == AuxiliaryStart /\ [][AuxiliaryNext]_vars

BbRest ==
    <<SearchVars, scan, RowVars, TiebreakVars, NodeVars, PoolVars, QueueVars,
      BucketVars, GridVars, CanonicalVars, LayoutVars, BuildVars,
      ToppingVars, IdSpaceVars, AuxiliaryVars, BoundedVars, SinkVars, FmVars,
      OracleVars>>

BbStart ==
    /\ BbInit
    /\ SearchIdle
    /\ scan = NoScan
    /\ RowIdle
    /\ TiebreakIdle
    /\ NodeIdle
    /\ PoolIdle
    /\ QueueIdle
    /\ BucketIdle
    /\ GridIdle
    /\ CanonicalIdle
    /\ LayoutIdle
    /\ BuildIdle
    /\ ToppingIdle
    /\ IdSpaceIdle
    /\ AuxiliaryIdle
    /\ BoundedIdle
    /\ SinkIdle
    /\ FmIdle
    /\ OracleIdle

BbNext ==
    \/ \E x \in 0 .. (BbSide - 1) : \E y \in 0 .. (BbSide - 1) :
          \E fm \in (SUBSET (0 .. (BbMoves - 1))) \ {{}} : BbVisit(x, y, fm)
          /\ UNCHANGED BbRest

SpecBb == BbStart /\ [][BbNext]_vars

BoundedRest ==
    <<SearchVars, scan, RowVars, TiebreakVars, NodeVars, PoolVars, QueueVars,
      BucketVars, GridVars, CanonicalVars, LayoutVars, BuildVars,
      ToppingVars, IdSpaceVars, AuxiliaryVars, BbVars, SinkVars, FmVars,
      OracleVars>>

BoundedStart ==
    /\ BoundedInit
    /\ SearchIdle
    /\ scan = NoScan
    /\ RowIdle
    /\ TiebreakIdle
    /\ NodeIdle
    /\ PoolIdle
    /\ QueueIdle
    /\ BucketIdle
    /\ GridIdle
    /\ CanonicalIdle
    /\ LayoutIdle
    /\ BuildIdle
    /\ ToppingIdle
    /\ IdSpaceIdle
    /\ AuxiliaryIdle
    /\ BbIdle
    /\ SinkIdle
    /\ FmIdle
    /\ OracleIdle

BoundedNext ==
    \/ \E DY \in {-1, 1} : \E x \in 0 .. 1 :
          \E all_1s \in {x} \cup ((WideWidth - 2) .. WideWidth) :
          BoundedJumpRight(DY, x, 1, all_1s)
          /\ UNCHANGED BoundedRest
    \/ \E DY \in {-1, 1} : \E x \in (WideWidth - 2) .. (WideWidth - 1) :
          \E all_1s \in {x} \cup (-1 .. 1) :
          BoundedJumpLeft(DY, x, 1, all_1s)
          /\ UNCHANGED BoundedRest

SpecBounded == BoundedStart /\ [][BoundedNext]_vars

SinkRest ==
    <<SearchVars, scan, RowVars, TiebreakVars, NodeVars, PoolVars, QueueVars,
      BucketVars, GridVars, CanonicalVars, LayoutVars, BuildVars,
      ToppingVars, IdSpaceVars, AuxiliaryVars, BbVars, BoundedVars, FmVars,
      OracleVars>>

SinkStart ==
    /\ SinkInit
    /\ SearchIdle
    /\ scan = NoScan
    /\ RowIdle
    /\ TiebreakIdle
    /\ NodeIdle
    /\ PoolIdle
    /\ QueueIdle
    /\ BucketIdle
    /\ GridIdle
    /\ CanonicalIdle
    /\ LayoutIdle
    /\ BuildIdle
    /\ ToppingIdle
    /\ IdSpaceIdle
    /\ AuxiliaryIdle
    /\ BbIdle
    /\ BoundedIdle
    /\ FmIdle
    /\ OracleIdle

SinkNext ==
    \/ \E w \in DOMAIN sink_workers : \E i \in DOMAIN sink_items : SinkTake(w, i)
          /\ UNCHANGED SinkRest
    \/ \E w \in DOMAIN sink_workers : SinkLock(w)
          /\ UNCHANGED SinkRest
    \/ \E w \in DOMAIN sink_workers : \E ok \in BOOLEAN : SinkWrite(w, ok)
          /\ UNCHANGED SinkRest
    \/ SinkReturn /\ UNCHANGED SinkRest

SpecSink == SinkStart /\ [][SinkNext]_vars

FmRest ==
    <<SearchVars, scan, RowVars, TiebreakVars, NodeVars, PoolVars, QueueVars,
      BucketVars, GridVars, CanonicalVars, LayoutVars, BuildVars,
      ToppingVars, IdSpaceVars, AuxiliaryVars, BbVars, BoundedVars, SinkVars,
      OracleVars>>

FmStart ==
    /\ FmInit
    /\ SearchIdle
    /\ scan = NoScan
    /\ RowIdle
    /\ TiebreakIdle
    /\ NodeIdle
    /\ PoolIdle
    /\ QueueIdle
    /\ BucketIdle
    /\ GridIdle
    /\ CanonicalIdle
    /\ LayoutIdle
    /\ BuildIdle
    /\ ToppingIdle
    /\ IdSpaceIdle
    /\ AuxiliaryIdle
    /\ BbIdle
    /\ BoundedIdle
    /\ SinkIdle
    /\ OracleIdle

FmNext ==
    \/ FmSearchStart /\ UNCHANGED FmRest
    \/ \E node \in FmNodes : FmSearchPop(node)
          /\ UNCHANGED FmRest

SpecFm == FmStart /\ [][FmNext]_vars

OracleRest ==
    <<SearchVars, scan, RowVars, TiebreakVars, NodeVars, PoolVars, QueueVars,
      BucketVars, GridVars, CanonicalVars, LayoutVars, BuildVars,
      ToppingVars, IdSpaceVars, AuxiliaryVars, BbVars, BoundedVars, SinkVars,
      FmVars>>

OracleStart ==
    /\ OracleInit
    /\ SearchIdle
    /\ scan = NoScan
    /\ RowIdle
    /\ TiebreakIdle
    /\ NodeIdle
    /\ PoolIdle
    /\ QueueIdle
    /\ BucketIdle
    /\ GridIdle
    /\ CanonicalIdle
    /\ LayoutIdle
    /\ BuildIdle
    /\ ToppingIdle
    /\ IdSpaceIdle
    /\ AuxiliaryIdle
    /\ BbIdle
    /\ BoundedIdle
    /\ SinkIdle
    /\ FmIdle

OracleNext ==
    \/ OracleGetPath /\ UNCHANGED OracleRest

SpecOracle == OracleStart /\ [][OracleNext]_vars

=============================================================================
